---- MODULE Spec2Model ----
(***************************************************************************)
(* Model of the model-registry lifecycle tracker of copilot-cli:          *)
(*   OllamaClient        (lib/ollama-client.js)        - serving client    *)
(*   GoogleDriveManager  (lib/google-drive-manager.js) - cloud sync client *)
(*   ModelManager        (lib/model-manager.js)        - registry manager  *)
(*                                                                         *)
(* Ten specifications share the variables:                                 *)
(*   Spec         the ModelManager operations of one caller, each handler  *)
(*                one action (its awaited sub-calls included);             *)
(*   SpecCloud    one GoogleDriveManager operation, step by step;          *)
(*   SpecServing  one OllamaClient request, step by step;                  *)
(*   SpecStream   one streamed OllamaClient response, chunk by chunk;      *)
(*   SpecTwo      pulls and trains of two ModelManager instances that      *)
(*                share one manifest path;                                 *)
(*   SpecLoad     an instance constructed on a manifest file that lacks    *)
(*                sections;                                                *)
(*   SpecScripts  two script executions at a time and their files;         *)
(*   SpecNames    pulls, deletes and restores of ids with an underscore;   *)
(*   SpecTasks    two operations of one instance, from await to await;     *)
(*   SpecAuth     set-ups, revocations and uploads of one caller.          *)
(*                                                                         *)
(* Conventions.  An optional property of a JavaScript object is a set with *)
(* at most one element ({} = the key is absent).  A timestamp is the       *)
(* millisecond reading of the clock (toISOString is injective on it).  A   *)
(* model id is the sequence of its characters.  Local filesystem calls are *)
(* taken to succeed; the serving endpoint and the script runs may fail.    *)
(***************************************************************************)
EXTENDS Naturals, Integers, Sequences, FiniteSets, TLC

\* ------------------------------------------------------------------ bounds
\* Largest clock reading of a behaviour.
MaxTime == 1
\* Most ModelManager calls of a behaviour.
MaxCalls == 3
\* Most lines of a streamed response body, and most chunks it arrives in.
MaxLines == 2
MaxChunks == 3
\* Most files of a directory tree that is uploaded or downloaded.
MaxFiles == 2

\* ------------------------------------------------------- program constants
\* _executePythonScript: options.maxRetries || 2
DefaultMaxRetries == 2
\* checkHealth: { timeout: 5000 }, in seconds
HealthTimeout == 5
\* OllamaClient constructor: options.timeout || 30000, in seconds
RequestTimeout == 30

\* ------------------------------------------------------------ input domains
Ids == { <<"a">>, <<"b", ":", "1">> }
BaseIds == { <<"a">> }
\* A model id whose tag holds an underscore, as in 'm:q_4'.
TagIds == { << "m", ":", "q", "_", "4" >> }
\* What a caller can pass for a model name besides an id: the empty string, and a
\* value that is not a string (its one element is no character).
EmptyName == <<>>
NotAString == << "#number" >>
PullNames == Ids \cup { EmptyName, NotAString }
Times == 0..MaxTime
InfoBlobs == { "info-1" }
DataPaths == { "data.txt", "missing.txt" }
\* The training ids a caller passes to exportModel.
TrainingIdInputs == BaseIds \X Times
ExistingDataPaths == { "data.txt" }
FolderArgs == { "folder-1" }
CreatedFolderId == "created-root"
Statuses == { 200, 201, 204, 404, 500 }

TheOne(S) == CHOOSE x \in S : TRUE
Range(f) == { f[i] : i \in DOMAIN f }
Last(s) == s[Len(s)]

\* ---------------------------------------------------------- directory names
\* String.prototype.replace(':', '_'): the FIRST occurrence only.
RECURSIVE ReplaceFirstColon(_)
ReplaceFirstColon(s) ==
  IF s = <<>> THEN <<>>
  ELSE IF Head(s) = ":" THEN <<"_">> \o Tail(s)
  ELSE <<Head(s)>> \o ReplaceFirstColon(Tail(s))

\* modelExists / deleteModel / listModels: modelName.replace(':', '_')
DirName(id) == ReplaceFirstColon(id)

\* _scanLocalModels: entry.replace(/_/g, ':'), every occurrence.
ScanName(dir) == [i \in 1..Len(dir) |-> IF dir[i] = "_" THEN ":" ELSE dir[i]]

DirNames == { DirName(i) : i \in Ids }
TagDirNames == { DirName(i) : i \in Ids \cup TagIds }

\* ------------------------------------------------------------ manifest data
EntryKeys == { "source", "pulledAt", "info", "synced", "syncedAt", "restoredAt",
               "baseModel", "trainingDataPath", "trainingId", "trainedAt" }
SettingsKeys == { "overwriteModels" }
GdriveKeys == { "authenticated", "backupFolderId", "setupAt" }

\* The ids a manifest can hold: the callers' ids and what a directory scan yields.
ManifestIds ==
  Ids \cup TagIds \cup { ScanName(d) : d \in DirNames \cup TagDirNames } \cup { EmptyName }

EntryDomain(k) ==
  CASE k = "source" -> { "ollama", "trained", "restored" }
    [] k \in { "pulledAt", "syncedAt", "restoredAt", "trainedAt" } -> Times
    [] k = "info" -> InfoBlobs
    [] k = "synced" -> BOOLEAN
    [] k = "baseModel" -> BaseIds
    [] k = "trainingDataPath" -> DataPaths
    [] k = "trainingId" -> Ids \X (Times)

SettingsDomain(k) == BOOLEAN

GdriveDomain(k) ==
  CASE k = "authenticated" -> BOOLEAN
    [] k = "backupFolderId" -> FolderArgs \cup { CreatedFolderId }
    [] k = "setupAt" -> Times

EmptyObject(keys) == [k \in keys |-> {}]

\* _loadConfig's fallback: { models: {}, settings: {}, gdrive: {} }
DefaultConfig ==
  [ models |-> <<>>, settings |-> EmptyObject(SettingsKeys), gdrive |-> EmptyObject(GdriveKeys) ]

\* The sections of a manifest; one JSON.parse read from a file has the sections the
\* file's text has.
Sections == { "models", "settings", "gdrive" }
HasSection(c, k) == k \in DOMAIN c

\* config.models is a JavaScript object: its keys keep their insertion order.
HasModel(ms, id) == \E i \in 1..Len(ms) : ms[i].id = id
\* this.config.models[id] = e : an existing key keeps its place, a new one goes last.
PutModel(ms, id, e) ==
  IF HasModel(ms, id)
  THEN [i \in 1..Len(ms) |-> IF ms[i].id = id THEN [id |-> id, e |-> e] ELSE ms[i]]
  ELSE Append(ms, [id |-> id, e |-> e])
\* Mutant: the delete statement is lost.
DeleteKeyRemovesNothing(ms, id) == ms

\* delete this.config.models[id]
DeleteKey(ms, id) == SelectSeq(ms, LAMBDA m : m.id # id)

\* ------------------------------------------------------- JSON (de)serialising
JSONStringifyValue(v) == ToString(v)

\* Mutant: a key whose value is false is not written either.
JSONStringifyObjectSkipsFalse(o) ==
  [k \in { k \in DOMAIN o : o[k] # {} /\ JSONStringifyValue(TheOne(o[k])) # "FALSE" }
     |-> JSONStringifyValue(TheOne(o[k]))]

\* JSON.stringify of an object: a key whose value is undefined (here: absent) is
\* not written; every other value is written as its JSON text.
JSONStringifyObject(o) ==
  [k \in { k \in DOMAIN o : o[k] # {} } |-> JSONStringifyValue(TheOne(o[k]))]

\* JSON.parse of an object's text: the keys of the text, each with its value read
\* back from the text; a key the text lacks is absent from the object.
JSONParseValue(text, domain) == CHOOSE v \in domain : JSONStringifyValue(v) = text
JSONParseObject(f, dom) ==
  [k \in DOMAIN dom |-> IF k \in DOMAIN f THEN { JSONParseValue(f[k], dom[k]) } ELSE {}]

\* JSON.stringify(this.config, null, 2)
JSONStringifyConfig(c) ==
  [ k \in DOMAIN c |->
      CASE k = "models" -> [i \in 1..Len(c.models) |->
                             [ id |-> JSONStringifyValue(c.models[i].id),
                               e |-> JSONStringifyObject(c.models[i].e) ]]
        [] k = "settings" -> JSONStringifyObject(c.settings)
        [] k = "gdrive" -> JSONStringifyObject(c.gdrive) ]

\* JSON.parse(fs.readFileSync(this.configPath, 'utf8'))
JSONParseConfig(t) ==
  [ s \in DOMAIN t |->
      CASE s = "models" ->
             [i \in 1..Len(t.models) |->
                [ id |-> JSONParseValue(t.models[i].id, ManifestIds),
                  e |-> JSONParseObject(t.models[i].e, [k \in EntryKeys |-> EntryDomain(k)]) ]]
        [] s = "settings" ->
             JSONParseObject(t.settings, [k \in SettingsKeys |-> SettingsDomain(k)])
        [] s = "gdrive" -> JSONParseObject(t.gdrive, [k \in GdriveKeys |-> GdriveDomain(k)]) ]

\* The manifest file: {} when it does not exist, else { its text }.
LoadConfig(file) == IF file = {} THEN DefaultConfig ELSE JSONParseConfig(TheOne(file))
SaveConfig(c) == { JSONStringifyConfig(c) }

\* -------------------------------------------------- the entries the code writes
PulledEntry(t, info) ==
  [ EmptyObject(EntryKeys) EXCEPT !["source"] = { "ollama" }, !["pulledAt"] = { t },
                                  !["info"] = { info }, !["synced"] = { FALSE } ]
\* Mutant: a trained entry is marked synced.
TrainedEntryMarkedSynced(base, data, tid, t) ==
  [ EmptyObject(EntryKeys) EXCEPT !["source"] = { "trained" }, !["baseModel"] = { base },
                                  !["trainingDataPath"] = { data }, !["trainingId"] = { tid },
                                  !["trainedAt"] = { t }, !["synced"] = { TRUE } ]

TrainedEntry(base, data, tid, t) ==
  [ EmptyObject(EntryKeys) EXCEPT !["source"] = { "trained" }, !["baseModel"] = { base },
                                  !["trainingDataPath"] = { data }, !["trainingId"] = { tid },
                                  !["trainedAt"] = { t }, !["synced"] = { FALSE } ]
\* Mutant: a restored entry is left unsynced.
RestoredEntryUnsynced(t) ==
  [ EmptyObject(EntryKeys) EXCEPT !["source"] = { "restored" }, !["restoredAt"] = { t },
                                  !["synced"] = { FALSE } ]

RestoredEntry(t) ==
  [ EmptyObject(EntryKeys) EXCEPT !["source"] = { "restored" }, !["restoredAt"] = { t },
                                  !["synced"] = { TRUE } ]
\* model.synced = true; model.syncedAt = <clock>
MarkSynced(e, t) == [ e EXCEPT !["synced"] = { TRUE }, !["syncedAt"] = { t } ]

\* ------------------------------------------------ OllamaClient, per request
\* What the serving endpoint does with one request: it answers with a status,
\* the connection fails, or it never answers.
EndpointBehaviours ==
  { [kind |-> "response", status |-> s] : s \in Statuses }
    \cup { [kind |-> "error", status |-> 0], [kind |-> "silent", status |-> 0] }

\* Mutant: any response counts as healthy.
CheckHealthValueAnyResponse(b) == b.kind = "response"

\* checkHealth: resolve(res.statusCode === 200); on 'error' and on 'timeout'
\* resolve(false).  It has no reject path.
CheckHealthValue(b) == b.kind = "response" /\ b.status = 200

\* pullModel, res.on('end'): statusCode === 200 resolves, anything else rejects;
\* on 'error' reject.  No 'timeout' handler: a silent endpoint leaves it pending.
PullModelOutcome(b) ==
  CASE b.kind = "response" -> IF b.status = 200 THEN "resolved" ELSE "rejected"
    [] b.kind = "error" -> "rejected"
    [] b.kind = "silent" -> "pending"

\* deleteModel: the same test on the response's status.
DeleteModelOutcome(b) ==
  CASE b.kind = "response" -> IF b.status = 200 THEN "resolved" ELSE "rejected"
    [] b.kind = "error" -> "rejected"
    [] b.kind = "silent" -> "pending"

\* showModel: resolves with the parsed body whatever the status, rejects when the
\* body does not parse or the connection fails.
ShowModelOutcome(b, bodyParses) ==
  CASE b.kind = "response" -> IF bodyParses THEN "resolved" ELSE "rejected"
    [] b.kind = "error" -> "rejected"
    [] b.kind = "silent" -> "pending"

\* listModels and generate: the same shape as showModel; the status is never read.
ListModelsOutcome(b, bodyParses) ==
  CASE b.kind = "response" -> IF bodyParses THEN "resolved" ELSE "rejected"
    [] b.kind = "error" -> "rejected"
    [] b.kind = "silent" -> "pending"
GenerateOutcome(b, bodyParses) ==
  CASE b.kind = "response" -> IF bodyParses THEN "resolved" ELSE "rejected"
    [] b.kind = "error" -> "rejected"
    [] b.kind = "silent" -> "pending"

\* streamGenerate: a response resolves (with its done record or, at its end, with
\* nothing), the request's 'error' rejects.
StreamGenerateOutcome(b) ==
  CASE b.kind = "response" -> "resolved"
    [] b.kind = "error" -> "rejected"
    [] b.kind = "silent" -> "pending"

\* ------------------------------------------ OllamaClient, streamed responses
\* A response body is a sequence of bytes; an ASCII character is its one byte, and
\* "C3", "A9" are the two bytes of one non-ASCII character, "e'".  "{p}" stands for a
\* JSON record without the done marker, "{d}" for one with done: true, "x" for a
\* line that is not JSON; AccentRecord is a JSON record whose text holds "e'".
ProgressRecord == << "{", "p", "}" >>
DoneRecord == << "{", "d", "}" >>
AccentRecord == << "{", "C3", "A9", "}" >>
StreamLines == { ProgressRecord, DoneRecord, AccentRecord, << "x" >> }

\* buffer += chunk: the chunk, a Buffer, is converted with toString('utf8') on its
\* own; a lead byte without its continuation byte in the chunk, and a continuation
\* byte without its lead byte, each become U+FFFD.
RECURSIVE Decode(_)
Decode(bytes) ==
  IF bytes = <<>> THEN <<>>
  ELSE IF Head(bytes) = "C3"
       THEN IF Len(bytes) >= 2 /\ bytes[2] = "A9"
            THEN << "e'" >> \o Decode(SubSeq(bytes, 3, Len(bytes)))
            ELSE << "U+FFFD" >> \o Decode(Tail(bytes))
  ELSE IF Head(bytes) = "A9" THEN << "U+FFFD" >> \o Decode(Tail(bytes))
  ELSE << Head(bytes) >> \o Decode(Tail(bytes))

RECURSIVE Flatten(_)
Flatten(ss) == IF ss = <<>> THEN <<>> ELSE Head(ss) \o Flatten(Tail(ss))

\* buffer.split('\n')
RECURSIVE SplitLines(_)
SplitLines(s) ==
  IF s = <<>> THEN << <<>> >>
  ELSE IF Head(s) = "\n" THEN << <<>> >> \o SplitLines(Tail(s))
  ELSE LET r == SplitLines(Tail(s)) IN << << Head(s) >> \o Head(r) >> \o Tail(r)

\* line.trim()
RECURSIVE TrimLeft(_)
TrimLeft(s) == IF s # <<>> /\ Head(s) = " " THEN TrimLeft(Tail(s)) ELSE s
RECURSIVE TrimRight(_)
TrimRight(s) == IF s # <<>> /\ Last(s) = " " THEN TrimRight(SubSeq(s, 1, Len(s) - 1)) ELSE s
Trim(s) == TrimRight(TrimLeft(s))

\* JSON.parse(line) inside try/catch: { the parsed record } or {} when it throws.
ParseLine(line) ==
  IF Trim(line) = ProgressRecord THEN { "p" }
  ELSE IF Trim(line) = DoneRecord THEN { "d" }
  ELSE IF Trim(line) = << "{", "e'", "}" >> THEN { "e'" }
  ELSE IF Trim(line) = << "{", "U+FFFD", "U+FFFD", "}" >> THEN { "U+FFFD U+FFFD" }
  ELSE {}

\* lines.slice(0, -1).forEach: the records of the non-blank lines that parse, in order.
RECURSIVE ParsedRecords(_)
ParsedRecords(lines) ==
  IF lines = <<>> THEN <<>>
  ELSE (IF Trim(Head(lines)) # <<>> /\ ParseLine(Head(lines)) # {}
        THEN << TheOne(ParseLine(Head(lines))) >> ELSE <<>>) \o ParsedRecords(Tail(lines))

\* res.on('data'): buffer += chunk; lines = buffer.split('\n'); the last line stays
\* in the buffer, the others are parsed and delivered.
OnData(buffer, chunk) ==
  LET lines == SplitLines(buffer \o Decode(chunk)) IN
  [ buffer |-> Last(lines), records |-> ParsedRecords(SubSeq(lines, 1, Len(lines) - 1)) ]

\* The records a whole response body holds, one per line.
RecordsOf(text) == ParsedRecords(SplitLines(Decode(text)))

\* The bodies an endpoint streams: up to MaxLines lines, each ended by a newline,
\* the last one with or without it.
LineSeqs == UNION { [1..n -> StreamLines] : n \in 1..MaxLines }
StreamTexts ==
  { <<>> } \cup
  UNION { { Flatten([i \in 1..Len(ls) |-> ls[i] \o << "\n" >>]),
            Flatten([i \in 1..Len(ls) |->
                       IF i < Len(ls) THEN ls[i] \o << "\n" >> ELSE ls[i]]) }
          : ls \in LineSeqs }

\* The ways a body arrives: cut into at most MaxChunks non-empty chunks.
CutPoints(n, k) ==
  { c \in [0..k -> 0..n] : c[0] = 0 /\ c[k] = n /\ \A i \in 1..k : c[i - 1] < c[i] }
Chunkings(text) ==
  UNION { { [i \in 1..k |-> SubSeq(text, c[i - 1] + 1, c[i])] : c \in CutPoints(Len(text), k) }
          : k \in 0..MaxChunks }

\* ------------------------------------- GoogleDriveManager, the script runs
\* How one run of a generated script ends (_executeScriptAttempt).
AttemptOutcomes == { "ok", "exit-nonzero", "timeout", "bad-output", "write-failed" }
AttemptResolves(o) == o = "ok"

\* What the generated scripts print.  "{f}" stands for the JSON object printed for
\* one transferred file, "{c}" for the object printed at the end of a script.
FileRecord == << "{", "f", "}" >>
CompletedRecord == << "{", "c", "}" >>
\* print(json.dumps(...)), once per record: the text and a newline.
PrintLines(records) == Flatten([i \in 1..Len(records) |-> records[i] \o << "\n" >>])

\* _generateUploadScript: with compress one archive is uploaded and nothing is
\* printed for it; without, one object is printed per file of the walk; then the
\* 'completed' object.
UploadScriptStdout(files, compress) ==
  PrintLines((IF compress THEN <<>> ELSE [i \in 1..files |-> FileRecord])
             \o << CompletedRecord >>)
\* _generateDownloadScript: one object per downloaded file, then the 'completed' one.
DownloadScriptStdout(files) ==
  PrintLines([i \in 1..files |-> FileRecord] \o << CompletedRecord >>)
\* The list, createFolder and storage scripts print one object.
ScriptStdout(op, files, compress) ==
  CASE op = "upload" -> UploadScriptStdout(files, compress)
    [] op = "download" -> DownloadScriptStdout(files)
    [] OTHER -> PrintLines(<< CompletedRecord >>)

\* JSON.parse(stdout): white space around the value is skipped, then the text must
\* be one JSON value and nothing else.
RECURSIVE SkipWhitespace(_)
SkipWhitespace(s) ==
  IF s # <<>> /\ Head(s) \in { " ", "\n" } THEN SkipWhitespace(Tail(s)) ELSE s
JSONParseStdout(text) ==
  LET t == SkipWhitespace(text) IN
  IF Len(t) >= 3 /\ t[1] = "{" /\ t[3] = "}" /\ SkipWhitespace(SubSeq(t, 4, Len(t))) = <<>>
  THEN { t[2] } ELSE {}

\* Mutant: the test is off by one, no failed attempt is followed by a wait and a
\* retry event.
RetryAfterOffByOne(attempt, maxRetries) == attempt < maxRetries - 2

\* _executePythonScript, the loop's test after a failed attempt:
\* attempt < maxRetries - 1 (attempt counts from 0).
RetryAfter(attempt, maxRetries) == attempt < maxRetries - 1

\* _executePythonScript as a whole, for the attempts' outcomes outs[1..maxRetries]:
\* the attempts made, the retry events emitted and whether it resolved.
RECURSIVE ExecuteFrom(_, _, _)
ExecuteFrom(outs, attempt, maxRetries) ==
  IF ~(attempt < maxRetries) THEN [ok |-> FALSE, attempts |-> attempt, retries |-> 0]
  ELSE IF AttemptResolves(outs[attempt + 1])
       THEN [ok |-> TRUE, attempts |-> attempt + 1, retries |-> 0]
       ELSE LET rest == ExecuteFrom(outs, attempt + 1, maxRetries)
            IN [rest EXCEPT !.retries = @ + (IF RetryAfter(attempt, maxRetries) THEN 1 ELSE 0)]
ExecutePythonScript(outs) == ExecuteFrom(outs, 0, DefaultMaxRetries)
ScriptRuns == [1..DefaultMaxRetries -> AttemptOutcomes]

\* The outcomes a retried cloud call can have (TRUE = it resolved).
WrappedCallResults == { ExecutePythonScript(o).ok : o \in ScriptRuns }

\* What the awaited OllamaClient calls can settle to, over all the endpoint can do.
HealthValues == { CheckHealthValue(b) : b \in EndpointBehaviours }
PullModelOutcomes == { PullModelOutcome(b) : b \in EndpointBehaviours }
DeleteModelOutcomes == { DeleteModelOutcome(b) : b \in EndpointBehaviours }
ShowModelOutcomes == { ShowModelOutcome(b, p) : b \in EndpointBehaviours, p \in BOOLEAN }

\* ================================================================ state
VARIABLES
  config,        \* ModelManager.config, the in-memory manifest
  disk,          \* the manifest file at configPath: {} or { text }
  lastSaved,     \* {} or { the manifest object _saveConfig serialised last }
  modelDirs,     \* the directories of modelPath
  trainingDirs,  \* the directories of trainingPath
  tokenFile,     \* whether the token file exists (GoogleDriveManager.isAuthenticated)
  now,           \* the last reading of the clock
  call,          \* the ModelManager operation called last
  result,        \* how it settled: "resolved", "skipped", "rejected"; "pending": never
                 \* ("none" before any call)
  trace,         \* its events ("ev:"), endpoint requests ("req:"), cloud calls ("gd:"), saves
  gd,            \* the GoogleDriveManager operation in progress (SpecCloud)
  had,           \* what it found for its model name: a manifest entry, a directory
  ncalls,        \* the number of ModelManager calls made so far
  sv,            \* the OllamaClient request in progress (SpecServing)
  inst,          \* which of two ModelManager instances `config` belongs to (SpecTwo)
  peer,          \* the in-memory manifest of the other instance (SpecTwo)
  ex,            \* the script executions in progress and the script files (SpecScripts)
  tasks          \* the operations of the one instance that are suspended at an await
                 \* (SpecTasks)

regVars == << config, disk, lastSaved, modelDirs, trainingDirs, tokenFile, now,
              call, result, trace, had, ncalls, inst, peer, ex, tasks >>
vars == << config, disk, lastSaved, modelDirs, trainingDirs, tokenFile, now,
           call, result, trace, had, ncalls, gd, sv, inst, peer, ex, tasks >>

NoId == <<>>
NoCall == [op |-> "none", name |-> NoId, deleteLocal |-> FALSE, deleteRemote |-> FALSE,
           base |-> NoId, data |-> "", folder |-> "", trainingId |-> << NoId, 0 >>]
\* "none" stands for an argument that was not passed (undefined).
FolderInputs == FolderArgs \cup { "none" }

GdIdle == [pc |-> "idle", op |-> "none", path |-> "none", attempt |-> 0, out |-> "none",
           scripts |-> 0, written |-> 0, runs |-> 0, value |-> 0, log |-> <<>>,
           errs |-> <<>>, lastError |-> "none", files |-> 0, compress |-> FALSE,
           exits |-> <<>>,
           sync |-> "none", syncpc |-> "none", phase |-> 0, events |-> <<>>, results |-> {}]
\* No script runs and the temporary directory holds no script file.
Slots == { 1, 2 }
NoRun == [pc |-> "idle", kind |-> "none", path |-> << "none" >>]
ExIdle == [runs |-> [i \in Slots |-> NoRun], files |-> {}, overwritten |-> FALSE]
\* No operation is suspended.  snapshot is this.config.models as it was when the
\* operation was called.
NoTask == [pc |-> "idle", op |-> "none", name |-> NoId, base |-> NoId, data |-> "",
           snapshot |-> <<>>]
TasksIdle == [i \in Slots |-> NoTask]
SvIdle == [pc |-> "idle", op |-> "none", beh |-> [kind |-> "none", status |-> 0],
           parses |-> TRUE, elapsed |-> 0, value |-> "none",
           conn |-> "none", text |-> <<>>, chunks |-> <<>>, buffer |-> <<>>, records |-> <<>>]

\* A manifest file a fresh installation can start from: none, or one whose
\* settings were edited by hand.
InitFiles ==
  { {} } \cup { SaveConfig([DefaultConfig EXCEPT !.settings = [overwriteModels |-> o]])
                : o \in { { TRUE } } }

\* ModelManager's constructor: this.config = this._loadConfig().  The token file of
\* an earlier authentication may be there or not; the model and training
\* directories start empty.
InitFrom(files) ==
  /\ disk \in files
  /\ config = LoadConfig(disk)
  /\ lastSaved = {}
  /\ modelDirs = {}
  /\ trainingDirs = {}
  /\ tokenFile \in BOOLEAN
  /\ now = 0
  /\ call = NoCall
  /\ result = "none"
  /\ trace = <<>>
  /\ had = [entry |-> FALSE, dir |-> FALSE]
  /\ ncalls = 0
  /\ gd = GdIdle
  /\ sv = SvIdle
  /\ inst = 1
  /\ peer = LoadConfig(disk)
  /\ ex = ExIdle
  /\ tasks = TasksIdle

Init == InitFrom(InitFiles)

\* ---------------------------------------------------------- ModelManager
\* The bookkeeping of a settled call.
Settle(c, r, tr) ==
  /\ call' = c
  /\ result' = r
  /\ trace' = tr
  /\ had' = [entry |-> HasSection(config, "models") /\ HasModel(config.models, c.name),
             dir |-> DirName(c.name) \in modelDirs]

\* Mutant: the manifest is changed in memory and not written.
SavedInMemoryOnly(c) == config' = c /\ UNCHANGED << disk, lastSaved >>

\* _saveConfig after the in-memory manifest became c.
Saved(c) == config' = c /\ disk' = SaveConfig(c) /\ lastSaved' = { c }
NotSaved(c) == config' = c /\ UNCHANGED << disk, lastSaved >>

\* Mutant: an operation reads the manifest file again before it changes the manifest.
ManifestReloaded(mem, file) == LoadConfig(file)

\* this.config in an operation: the copy the constructor loaded, whatever the file
\* holds by now.
Manifest(mem, file) == mem

\* this.config.settings.overwriteModels, as a condition
OverwriteModels(c) == c.settings.overwriteModels = { TRUE }

\* ollama.modelExists(name): fs.existsSync(path.join(modelPath, DirName(name))); for
\* the empty name the path is modelPath itself, which the constructor has created.
ModelExists(dirs, name) == DirName(name) = EmptyName \/ DirName(name) \in dirs

\* typeof modelName === 'string': modelName.replace exists (else a TypeError is thrown)
IsString(name) == name # NotAString

\* Mutant: the health answer is not tested.
ServerAccessibleUnchecked(isHealthy) == TRUE

\* pullModel: if (!isHealthy) throw new Error('Ollama server is not accessible')
ServerAccessible(isHealthy) == isHealthy

ProgressCounts == { 0, 1 }
ProgressEvents(n) == [i \in 1..n |-> "ev:pull-progress"]

\* ModelManager.pullModel(modelName)
PullModel(name) ==
  LET c == [NoCall EXCEPT !.op = "pull", !.name = name]
  IN
  \E healthy \in HealthValues :
    LET start == << "ev:pull-start", "req:health" >>
                   \o (IF healthy THEN <<>> ELSE << "res:unhealthy" >>) IN
    IF ~ServerAccessible(healthy)
    THEN /\ Settle(c, "rejected", start \o << "ev:pull-error" >>)
         /\ UNCHANGED << config, disk, lastSaved, modelDirs, trainingDirs, tokenFile, now >>
    ELSE IF ~IsString(name)
    THEN /\ Settle(c, "rejected", start \o << "ev:pull-error" >>)
         /\ UNCHANGED << config, disk, lastSaved, modelDirs, trainingDirs, tokenFile, now >>
    ELSE IF ModelExists(modelDirs, name) /\ ~HasSection(config, "settings")
    THEN \* this.config.settings.overwriteModels with settings undefined: TypeError
         /\ Settle(c, "rejected", start \o << "err:missing-section", "ev:pull-error" >>)
         /\ UNCHANGED << config, disk, lastSaved, modelDirs, trainingDirs, tokenFile, now >>
    ELSE IF ModelExists(modelDirs, name) /\ ~OverwriteModels(config)
    THEN /\ Settle(c, "skipped", start \o << "ev:pull-skipped" >>)
         /\ UNCHANGED << config, disk, lastSaved, modelDirs, trainingDirs, tokenFile, now >>
    ELSE
      \E pulling \in PullModelOutcomes, n \in ProgressCounts :
        LET pulled == start \o << "req:pull" >> \o ProgressEvents(n) IN
        /\ IF pulling = "pending"
           THEN \* the request never settles: the await never returns
                /\ Settle(c, "pending", pulled)
                /\ UNCHANGED << config, disk, lastSaved, modelDirs, trainingDirs, tokenFile, now >>
           ELSE IF pulling = "rejected"
           THEN /\ Settle(c, "rejected", pulled \o << "ev:pull-error" >>)
                /\ UNCHANGED << config, disk, lastSaved, modelDirs, trainingDirs, tokenFile, now >>
           ELSE
             \E showing \in ShowModelOutcomes :
               /\ IF showing = "pending"
                  THEN /\ Settle(c, "pending", pulled \o << "req:show" >>)
                       /\ UNCHANGED << config, disk, lastSaved, modelDirs, trainingDirs,
                                       tokenFile, now >>
                  ELSE IF showing = "rejected"
                  THEN /\ Settle(c, "rejected", pulled \o << "req:show", "ev:pull-error" >>)
                       /\ UNCHANGED << config, disk, lastSaved, modelDirs, trainingDirs,
                                       tokenFile, now >>
                  ELSE IF ~HasSection(config, "models")
                  THEN \* this.config.models[modelName] = ... with models undefined
                       /\ Settle(c, "rejected", pulled \o << "req:show", "err:missing-section",
                                                             "ev:pull-error" >>)
                       /\ UNCHANGED << config, disk, lastSaved, modelDirs, trainingDirs,
                                       tokenFile, now >>
                  ELSE
                    \E info \in InfoBlobs, t \in now..MaxTime :
                      /\ Saved([Manifest(config, disk) EXCEPT
                                  !.models = PutModel(@, name, PulledEntry(t, info))])
                      /\ now' = t
                      /\ Settle(c, "resolved",
                                pulled \o << "req:show", "save", "ev:pull-complete" >>)
                      /\ UNCHANGED << modelDirs, trainingDirs, tokenFile >>

\* The clock readings of a loop that reads the clock once per element of 1..n,
\* starting no earlier than t0.
ClockReadings(n, t0) ==
  { ts \in [1..n -> Times] :
      /\ \A i \in 1..n : ts[i] >= t0
      /\ \A i \in 1..n, j \in 1..n : i <= j => ts[i] <= ts[j] }

\* syncToGoogleDrive's loop over Object.keys(this.config.models): each entry gets
\* synced = true and syncedAt = new Date().toISOString(), read inside the loop.
MarkAllSynced(ms, ts) == [i \in 1..Len(ms) |-> [id |-> ms[i].id, e |-> MarkSynced(ms[i].e, ts[i])]]

\* syncToGoogleDrive: the folder id of the argument (a string) or the configured one;
\* {} when neither is there.
ResolveFolderId(arg, c) == IF arg # "none" THEN { arg } ELSE c.gdrive.backupFolderId

\* Mutant: the folder id is tested before the authentication.
SyncErrorFolderFirst(authenticated, folderId) ==
  IF folderId = {} THEN "err:no-folder"
  ELSE IF ~authenticated THEN "err:not-authenticated"
  ELSE "none"

\* syncToGoogleDrive's two tests before the upload, in the code's order: the error
\* thrown ('Not authenticated with Google Drive. Run setup first.', 'No Google Drive
\* folder configured') or "none".
SyncError(authenticated, folderId) ==
  IF ~authenticated THEN "err:not-authenticated"
  ELSE IF folderId = {} THEN "err:no-folder"
  ELSE "none"

\* Mutant: a rejected upload does not end the call.
UploadConfirmedUnchecked(uploaded) == TRUE

\* const result = await this.gdrive.syncModels(...): the statements after it run
\* only when the upload resolved; a rejection goes to the catch block.
UploadConfirmed(uploaded) == uploaded

\* Mutant: the download phase comes first.
SyncPhasesDownloadFirst(direction) ==
  (IF direction \in { "download", "both" } THEN << "download" >> ELSE <<>>)
    \o (IF direction \in { "upload", "both" } THEN << "upload" >> ELSE <<>>)

\* GoogleDriveManager.syncModels: the phases of a direction, in the code's order.
SyncPhases(direction) ==
  (IF direction \in { "upload", "both" } THEN << "upload" >> ELSE <<>>)
    \o (IF direction \in { "download", "both" } THEN << "download" >> ELSE <<>>)

\* Mutant: the direction is left to syncModels' default, 'both'.
SyncDirectionDefault == "both"

\* syncToGoogleDrive: this.gdrive.syncModels(folderId, { direction: 'upload' })
SyncDirection == "upload"

\* The cloud call of a phase and the label of its outcome.
PhaseCall(phase) == IF phase = "upload" THEN "gd:uploadDirectory" ELSE "gd:downloadModels"
PhaseResult(phase, ok) ==
  IF phase = "upload" THEN (IF ok THEN "res:uploaded" ELSE "res:upload-failed")
  ELSE (IF ok THEN "res:downloaded" ELSE "res:download-failed")

\* The runs of syncModels(direction): the first k phases resolve and, when k is not
\* all of them, the next one rejects and ends the call.  calls lists the cloud calls
\* with their outcomes; downloaded tells whether a download script ran.
SyncModelsRuns(direction) ==
  LET ps == SyncPhases(direction) IN
  { [ ok |-> k = Len(ps),
      calls |-> Flatten([i \in 1..(IF k < Len(ps) THEN k + 1 ELSE k) |->
                           << PhaseCall(ps[i]), PhaseResult(ps[i], i <= k) >>]),
      downloaded |-> \E i \in 1..(IF k < Len(ps) THEN k + 1 ELSE k) : ps[i] = "download" ]
    : k \in { k \in 0..Len(ps) : (k < Len(ps) => FALSE \in WrappedCallResults)
                                   /\ (k > 0 => TRUE \in WrappedCallResults) } }

\* ModelManager.syncToGoogleDrive(folderIdOrConfig).  gdrive.syncModels reports on its
\* own emitter too ("gdev:"): 'sync-complete', or 'error' before it rethrows.
SyncToGoogleDrive(arg) ==
  LET c == [NoCall EXCEPT !.op = "sync", !.folder = arg]
      start == << "ev:sync-start" >>
      err == SyncError(tokenFile, ResolveFolderId(arg, config))
  IN
  IF err # "none"
  THEN /\ Settle(c, "rejected", start \o << err, "ev:error" >>)
       /\ UNCHANGED << config, disk, lastSaved, modelDirs, trainingDirs, tokenFile, now >>
  ELSE
    \E run \in SyncModelsRuns(SyncDirection) :
      \E got \in (IF run.downloaded THEN SUBSET DirNames ELSE { {} }) :
        LET synced == start \o << "gd:syncModels" >> \o run.calls IN
        /\ modelDirs' = modelDirs \cup got
        /\ IF ~UploadConfirmed(run.ok)
           THEN /\ Settle(c, "rejected", synced \o << "gdev:error", "ev:error" >>)
                /\ UNCHANGED << config, disk, lastSaved, trainingDirs, tokenFile, now >>
           ELSE
             \E ts \in ClockReadings(Len(config.models), now) :
               /\ Saved([config EXCEPT !.models = MarkAllSynced(@, ts)])
               /\ now' = IF Len(config.models) = 0 THEN now ELSE ts[Len(config.models)]
               /\ Settle(c, "resolved",
                         synced \o << "gdev:sync-complete", "save", "ev:sync-complete" >>)
               /\ UNCHANGED << trainingDirs, tokenFile >>

\* Mutant: the training directory is not created.
MkdirTrainingSkipped(dirs, trainingId) == dirs

\* fs.mkdirSync(path.join(this.trainingPath, trainingId), { recursive: true })
MkdirTraining(dirs, trainingId) == dirs \cup { trainingId }

\* ModelManager.trainModel(modelName, trainingData, outputName)
TrainModel(base, data, out) ==
  LET c == [NoCall EXCEPT !.op = "train", !.name = out, !.base = base, !.data = data]
      start == << "ev:training-start" >>
  IN
  IF data \notin ExistingDataPaths
  THEN /\ Settle(c, "rejected", start \o << "ev:error" >>)
       /\ UNCHANGED << config, disk, lastSaved, modelDirs, trainingDirs, tokenFile, now >>
  ELSE
    \E healthy \in HealthValues :
      IF ~healthy
      THEN /\ Settle(c, "rejected", start \o << "req:health", "ev:error" >>)
           /\ UNCHANGED << config, disk, lastSaved, modelDirs, trainingDirs, tokenFile, now >>
      ELSE
        \* Date.now() for the trainingId, then new Date() for trainedAt
        \E ts \in ClockReadings(2, now) :
          LET trainingId == << out, ts[1] >> IN
          /\ trainingDirs' = MkdirTraining(trainingDirs, trainingId)
          /\ IF ~HasSection(config, "models")
             THEN \* this.config.models[outputName] = ... with models undefined
                  /\ Settle(c, "rejected", start \o << "req:health", "err:missing-section",
                                                       "ev:error" >>)
                  /\ now' = ts[1]
                  /\ UNCHANGED << config, disk, lastSaved, modelDirs, tokenFile >>
             ELSE
               /\ Saved([Manifest(config, disk) EXCEPT
                           !.models = PutModel(@, out,
                                               TrainedEntry(base, data, trainingId, ts[2]))])
               /\ now' = ts[2]
               /\ Settle(c, "resolved",
                         start \o << "req:health", "save", "ev:training-complete" >>)
               /\ UNCHANGED << modelDirs, tokenFile >>

\* ModelManager.exportModel(trainingId, outputPath): the files of the training
\* directory are copied to outputPath, which is outside the modelled storage.
ExportModel(trainingId) ==
  LET c == [NoCall EXCEPT !.op = "export", !.trainingId = trainingId] IN
  /\ IF trainingId \notin trainingDirs
     THEN Settle(c, "rejected", << "ev:error" >>)
     ELSE Settle(c, "resolved", << "ev:export-complete" >>)
  /\ UNCHANGED << config, disk, lastSaved, modelDirs, trainingDirs, tokenFile, now >>

\* ModelManager.deleteModel(modelName, deleteLocal = true, deleteRemote = false)
DeleteModel(name, deleteLocal, deleteRemote) ==
  LET c == [NoCall EXCEPT !.op = "delete", !.name = name,
                          !.deleteLocal = deleteLocal, !.deleteRemote = deleteRemote]
      local == deleteLocal /\ HasModel(config.models, name)
      cfg1 == IF local THEN [config EXCEPT !.models = DeleteKey(@, name)] ELSE config
      dirs1 == IF local THEN modelDirs \ { DirName(name) } ELSE modelDirs
  IN
  /\ modelDirs' = dirs1
  /\ UNCHANGED << trainingDirs, tokenFile, now >>
  /\ IF deleteRemote
     THEN \E deleting \in DeleteModelOutcomes :
            /\ deleting # "pending"
            /\ IF deleting = "rejected"
               THEN /\ NotSaved(cfg1)
                    /\ Settle(c, "rejected", << "req:delete", "ev:error" >>)
               ELSE /\ Saved(cfg1)
                    /\ Settle(c, "resolved", << "req:delete", "save", "ev:model-deleted" >>)
     ELSE /\ Saved(cfg1)
          /\ Settle(c, "resolved", << "save", "ev:model-deleted" >>)

\* fs.readdirSync(modelPath) lists the directories in an order the platform chooses.
Listings(S) ==
  { l \in [1..Cardinality(S) -> S] : \A i, j \in 1..Cardinality(S) : l[i] = l[j] => i = j }

\* restoreFromGoogleDrive's loop over _scanLocalModels(): a scanned id the manifest
\* lacks gets a restored entry stamped with the clock; [ms, t] is the manifest and the
\* last clock reading after the directories listing[i..].
RECURSIVE InsertRestored(_, _, _, _, _)
InsertRestored(ms, listing, ts, i, t) ==
  IF i > Len(listing) THEN [ms |-> ms, t |-> t]
  ELSE LET id == ScanName(listing[i]) IN
       IF HasModel(ms, id)
       THEN InsertRestored(ms, listing, ts, i + 1, t)
       ELSE InsertRestored(PutModel(ms, id, RestoredEntry(ts[i])), listing, ts, i + 1, ts[i])

\* ModelManager.restoreFromGoogleDrive(folderId) for a remote folder that holds
\* some of the directories `remote`; the download script creates the directories
\* `got`, also when it fails part-way.
RestoreFrom(folder, remote) ==
  LET c == [NoCall EXCEPT !.op = "restore", !.folder = folder]
      start == << "ev:sync-start" >>
  IN
  IF ~tokenFile
  THEN /\ Settle(c, "rejected", start \o << "ev:error" >>)
       /\ UNCHANGED << config, disk, lastSaved, modelDirs, trainingDirs, tokenFile, now >>
  ELSE
    \E ok \in WrappedCallResults, got \in SUBSET remote :
      /\ modelDirs' = modelDirs \cup got
      /\ IF ~ok
         THEN /\ Settle(c, "rejected", start \o << "gd:downloadModels", "ev:error" >>)
              /\ UNCHANGED << config, disk, lastSaved, trainingDirs, tokenFile, now >>
         ELSE
           \E listing \in Listings(modelDirs \cup got) :
             \E ts \in ClockReadings(Len(listing), now) :
               LET r == InsertRestored(config.models, listing, ts, 1, now) IN
               /\ Saved([config EXCEPT !.models = r.ms])
               /\ now' = r.t
               /\ Settle(c, "resolved",
                         start \o << "gd:downloadModels", "save", "ev:sync-complete" >>)
               /\ UNCHANGED << trainingDirs, tokenFile >>

RestoreFromGoogleDrive(folder) == RestoreFrom(folder, DirNames)

\* GoogleDriveManager.authenticate -> _authenticatePython: one run of the auth
\* script, not retried; the token file is written when it ends well.
AuthenticateResults == { AttemptResolves(o) : o \in AttemptOutcomes }

\* Mutant: the 'backups' subfolder is not created.
FolderCallsWithoutBackups ==
  << "gd:createFolder:copilot-models", "gd:createFolder:ollama-models",
     "gd:createFolder:trained-models" >>

\* setupGoogleDrive creates 'copilot-models' and three subfolders, one after the other.
FolderCalls ==
  << "gd:createFolder:copilot-models", "gd:createFolder:ollama-models",
     "gd:createFolder:trained-models", "gd:createFolder:backups" >>

\* ModelManager.setupGoogleDrive(credentialsPath, backupFolderId); made is the number
\* of createFolder calls that resolve before one rejects (4: all of them).
SetupGoogleDrive(arg) ==
  LET c == [NoCall EXCEPT !.op = "setup", !.folder = arg]
      start == << "ev:gdrive-setup-start", "gd:authenticate" >>
  IN
  \E authOk \in AuthenticateResults :
    IF ~authOk
    THEN /\ Settle(c, "rejected", start \o << "gdev:error", "ev:error" >>)
         /\ UNCHANGED << config, disk, lastSaved, modelDirs, trainingDirs, tokenFile, now >>
    ELSE
      /\ tokenFile' = TRUE
      /\ UNCHANGED << modelDirs, trainingDirs >>
      /\ \E made \in 0..Len(FolderCalls) :
           LET calls == IF arg # "none" THEN <<>>
                        ELSE SubSeq(FolderCalls, 1, IF made < Len(FolderCalls) THEN made + 1
                                               ELSE Len(FolderCalls))
               folders == start \o calls
           IN
           /\ arg # "none" => made = Len(FolderCalls)
           /\ made < Len(FolderCalls) => FALSE \in WrappedCallResults
           /\ made > 0 => TRUE \in WrappedCallResults
           /\ IF made < Len(FolderCalls)
              THEN /\ Settle(c, "rejected", folders \o << "ev:error" >>)
                   /\ UNCHANGED << config, disk, lastSaved, now >>
              ELSE
                \E t \in now..MaxTime :
                  /\ Saved([config EXCEPT !.gdrive =
                              [ authenticated |-> { TRUE },
                                backupFolderId |->
                                  { IF arg # "none" THEN arg ELSE CreatedFolderId },
                                setupAt |-> { t } ]])
                  /\ now' = t
                  /\ Settle(c, "resolved",
                            folders \o << "save", "ev:gdrive-setup-complete" >>)

\* new ModelManager(options) on the same configPath: this.config = this._loadConfig()
Construct ==
  /\ config' = LoadConfig(disk)
  /\ Settle([NoCall EXCEPT !.op = "construct"], "resolved", <<>>)
  /\ UNCHANGED << disk, lastSaved, modelDirs, trainingDirs, tokenFile, now >>

\* One more call by the caller, who awaits each call before the next: after a call
\* that never settles there is none.
Called ==
  /\ ncalls < MaxCalls /\ result # "pending"
  /\ ncalls' = ncalls + 1 /\ UNCHANGED << gd, sv, inst, peer, ex, tasks >>

RegNext ==
  \/ \E name \in PullNames : Called /\ PullModel(name)
  \/ \E arg \in FolderInputs : Called /\ SyncToGoogleDrive(arg)
  \/ \E base \in BaseIds, data \in DataPaths, out \in Ids : Called /\ TrainModel(base, data, out)
  \/ \E name \in Ids, dl \in BOOLEAN, dr \in BOOLEAN : Called /\ DeleteModel(name, dl, dr)
  \/ \E trainingId \in TrainingIdInputs : Called /\ ExportModel(trainingId)
  \/ \E folder \in FolderArgs : Called /\ RestoreFromGoogleDrive(folder)
  \/ \E arg \in FolderInputs : Called /\ SetupGoogleDrive(arg)
  \/ Called /\ Construct

Spec == Init /\ [][RegNext]_vars

\* ================================= ModelManager on a manifest file left by others
\* A manifest file that holds well-formed JSON with any of the sections.
SectionFiles ==
  { SaveConfig([k \in S |-> DefaultConfig[k]]) : S \in SUBSET Sections }
    \cup { SaveConfig([DefaultConfig EXCEPT !.settings = [overwriteModels |-> { TRUE }]]) }

InitLoad == InitFrom(SectionFiles)

LoadNext ==
  \/ \E name \in Ids : Called /\ PullModel(name)
  \/ \E base \in BaseIds, data \in DataPaths, out \in Ids : Called /\ TrainModel(base, data, out)
  \/ Called /\ Construct

SpecLoad == InitLoad /\ [][LoadNext]_vars

\* ===================================== ModelManager with ids that hold underscores
NamesNext ==
  \/ \E name \in Ids \cup TagIds : Called /\ PullModel(name)
  \/ \E name \in Ids \cup TagIds, dl \in BOOLEAN : Called /\ DeleteModel(name, dl, FALSE)
  \/ \E folder \in FolderArgs : Called /\ RestoreFrom(folder, TagDirNames)

SpecNames == Init /\ [][NamesNext]_vars

\* ============================== two ModelManager instances on one manifest path
\* Both instances were constructed on the same path before any operation (Init);
\* their operations do not overlap.  `config` is the manifest of the instance whose
\* operation runs next, `peer` the other one's.
OtherInstanceNext ==
  /\ config' = peer /\ peer' = config /\ inst' = 3 - inst
  /\ UNCHANGED << disk, lastSaved, modelDirs, trainingDirs, tokenFile, now, call, result,
                  trace, had, ncalls, gd, sv, ex, tasks >>

TwoNext ==
  \/ OtherInstanceNext
  \/ \E name \in Ids : Called /\ PullModel(name)
  \/ \E base \in BaseIds, data \in DataPaths, out \in Ids : Called /\ TrainModel(base, data, out)

SpecTwo == Init /\ [][TwoNext]_vars

\* =========================================== GoogleDriveManager, step by step
\* gd.pc: "idle"; "attempt" (the loop of _executePythonScript is about to start an
\* attempt); "exec" (the script file is written, the subprocess runs); "failed" (the
\* attempt rejected, the catch block runs); "backoff" (the timer of the catch block
\* is pending); "resolved" / "rejected" (the operation settled).
\* gd.log lists, in order: "start" (an attempt starts), "fail" / "ok" (it settles),
\* "retry" (the retry event); gd.value is the number of the attempt whose result
\* the operation resolved with.
CloudOps == { "upload", "download", "list", "createFolder", "storage" }
\* What uploadDirectory's localPath is on disk.
PathKinds == { "dir", "file", "missing" }
RunOutcomes == AttemptOutcomes \ { "write-failed" }

\* Mutant: the path is not checked.
UploadPathUnchecked(kind) == "none"

\* uploadDirectory: fs.existsSync(localPath) and fs.statSync(localPath).isDirectory()
UploadPathError(kind) ==
  CASE kind = "missing" -> "Directory not found"
    [] kind = "file" -> "Not a directory"
    [] kind = "dir" -> "none"

\* gd.sync is the direction of the syncModels call in progress ("none" when the
\* operation was called directly), gd.syncpc its position ("running", "resolved",
\* "rejected"), gd.phase the index of its current phase, gd.results the phases whose
\* result it has stored; gd.events lists the events emitted other than 'retry'.
GdSettled == gd.pc \in { "idle", "resolved", "rejected" } /\ gd.syncpc # "running"

SyncDirections == { "upload", "download", "both" }
\* this.emit('sync-status', { stage: ... })
StatusEvent(op) == IF op = "upload" THEN "sync-status:uploading" ELSE "sync-status:downloading"
\* onProgress: this.emit('upload-progress' / 'download-progress', result)
ProgressEvent(op) == IF op = "upload" THEN "upload-progress" ELSE "download-progress"

\* A call of uploadDirectory / downloadModels / listFolderContents / createFolder /
\* getStorageInfo: up to the first await.
GdCall(op, kind, files, compress) ==
  /\ GdSettled
  /\ op # "upload" => (kind = "dir" /\ ~compress)
  /\ (op \notin { "upload", "download" } \/ kind # "dir") => files = 0
  /\ IF op = "upload" /\ UploadPathError(kind) # "none"
     THEN gd' = [GdIdle EXCEPT !.pc = "rejected", !.op = op, !.path = kind,
                               !.out = UploadPathError(kind), !.compress = compress]
     ELSE gd' = [GdIdle EXCEPT !.pc = "attempt", !.op = op, !.path = kind,
                               !.files = files, !.compress = compress]
  /\ UNCHANGED << regVars, sv >>

\* _executeScriptAttempt: fs.writeFileSync(scriptPath, script), then exec(...)
GdWriteScript ==
  /\ gd.pc = "attempt"
  /\ \E wrote \in BOOLEAN :
       IF wrote
       THEN gd' = [gd EXCEPT !.pc = "exec", !.scripts = @ + 1, !.written = @ + 1,
                             !.log = Append(@, "start")]
       ELSE gd' = [gd EXCEPT !.pc = "failed", !.out = "write-failed",
                             !.errs = Append(@, "write-failed"),
                             !.log = @ \o << "start", "fail" >>]
  /\ UNCHANGED << regVars, sv >>

\* exec's callback: unlink the script, then reject on an error or on output that does
\* not parse, else resolve with the parsed output.
GdScriptDone(o) ==
  /\ gd.pc = "exec"
  /\ IF AttemptResolves(o)
        /\ JSONParseStdout(ScriptStdout(gd.op, gd.files, gd.compress)) # {}
     THEN gd' = [gd EXCEPT !.pc = "resolved", !.out = o, !.scripts = @ - 1, !.runs = @ + 1,
                           !.value = gd.attempt + 1, !.log = Append(@, "ok"),
                           !.exits = Append(@, o),
                           !.events = IF gd.op \in { "upload", "download" }
                                      THEN Append(@, ProgressEvent(gd.op)) ELSE @]
     ELSE LET e == IF AttemptResolves(o) THEN "bad-output" ELSE o IN
          gd' = [gd EXCEPT !.pc = "failed", !.out = e, !.scripts = @ - 1, !.runs = @ + 1,
                           !.exits = Append(@, o),
                           !.errs = Append(@, e), !.log = Append(@, "fail")]
  /\ UNCHANGED << regVars, sv >>

\* _executePythonScript's catch block: lastError = error; wait only when another
\* attempt follows; after the last attempt the loop ends and lastError is thrown.
GdCatch ==
  /\ gd.pc = "failed"
  /\ IF RetryAfter(gd.attempt, DefaultMaxRetries)
     THEN gd' = [gd EXCEPT !.pc = "backoff", !.lastError = gd.out]
     ELSE IF gd.attempt + 1 < DefaultMaxRetries
     THEN gd' = [gd EXCEPT !.pc = "attempt", !.attempt = @ + 1, !.lastError = gd.out]
     ELSE gd' = [gd EXCEPT !.pc = "rejected", !.attempt = @ + 1, !.lastError = gd.out]
  /\ UNCHANGED << regVars, sv >>

\* The backoff timer fires: emit 'retry', then the loop's next attempt.
GdBackoffOver ==
  /\ gd.pc = "backoff"
  /\ IF gd.attempt + 1 < DefaultMaxRetries
     THEN gd' = [gd EXCEPT !.pc = "attempt", !.attempt = @ + 1, !.log = Append(@, "retry")]
     ELSE gd' = [gd EXCEPT !.pc = "rejected", !.attempt = @ + 1, !.log = Append(@, "retry"),
                           !.out = gd.lastError]
  /\ UNCHANGED << regVars, sv >>

\* How the run of the authentication script ends: execAsync is given no timeout.
AuthOutcomes == RunOutcomes \ { "timeout" }

\* authenticate -> _authenticatePython, up to its await: the script is written to
\* the fixed path tmpdir/gdrive_auth.py and started with execAsync.
GdAuthenticate ==
  /\ GdSettled
  /\ gd' = [GdIdle EXCEPT !.pc = "auth-exec", !.op = "authenticate", !.scripts = 1,
                          !.written = 1, !.log = << "start" >>]
  /\ UNCHANGED << regVars, sv >>

\* _authenticatePython after the await: the output is parsed and written to the
\* token file; any failure is rethrown ('Python authentication failed: ...').  The
\* script file is not removed and no second run is made.
GdAuthDone(o) ==
  /\ gd.pc = "auth-exec"
  /\ IF AttemptResolves(o)
     THEN /\ gd' = [gd EXCEPT !.pc = "resolved", !.out = o, !.runs = @ + 1, !.value = 1,
                              !.log = Append(@, "ok")]
          /\ tokenFile' = TRUE
     ELSE /\ gd' = [gd EXCEPT !.pc = "rejected", !.out = o, !.runs = @ + 1, !.attempt = 1,
                              !.errs = Append(@, o), !.lastError = o,
                              !.log = Append(@, "fail")]
          /\ UNCHANGED tokenFile
  /\ UNCHANGED << config, disk, lastSaved, modelDirs, trainingDirs, now, call, result,
                  trace, had, ncalls, sv, inst, peer, ex, tasks >>

\* syncModels starts phase i: the status event, then uploadDirectory(this.modelPath,
\* ...) or downloadModels(...) up to its first await.
StartPhase(g, i, kind, files) ==
  LET op == SyncPhases(g.sync)[i]
      err == IF op = "upload" THEN UploadPathError(kind) ELSE "none"
  IN [GdIdle EXCEPT !.pc = IF err # "none" THEN "rejected" ELSE "attempt",
                    !.op = op, !.path = kind, !.out = err,
                    !.files = files, !.compress = g.compress,
                    !.sync = g.sync, !.syncpc = "running", !.phase = i,
                    !.events = Append(g.events, StatusEvent(op)), !.results = g.results]

\* A call of syncModels(folderId, { direction }), up to its first await; kind is
\* what this.modelPath is on disk.
GdSyncModels(direction, kind, files, compress) ==
  /\ GdSettled
  /\ direction = "download" => (kind = "dir" /\ ~compress)
  /\ kind # "dir" => files = 0
  /\ gd' = StartPhase([GdIdle EXCEPT !.sync = direction, !.compress = compress],
                      1, kind, files)
  /\ UNCHANGED << regVars, sv >>

\* syncModels after an await: a rejected phase goes to the catch block ('error',
\* rethrow); a resolved one is stored in results, then the next phase starts or
\* 'sync-complete' is emitted with results.
GdSyncNext ==
  /\ gd.syncpc = "running" /\ gd.pc \in { "resolved", "rejected" }
  /\ IF gd.pc = "rejected"
     THEN gd' = [gd EXCEPT !.syncpc = "rejected", !.events = Append(@, "error")]
     ELSE IF gd.phase < Len(SyncPhases(gd.sync))
     THEN \E files \in 0..MaxFiles :
            gd' = StartPhase([gd EXCEPT !.results = @ \cup { gd.op }], gd.phase + 1,
                             "dir", files)
     ELSE gd' = [gd EXCEPT !.syncpc = "resolved", !.results = @ \cup { gd.op },
                           !.events = Append(@, "sync-complete")]
  /\ UNCHANGED << regVars, sv >>

CloudNext ==
  \/ \E op \in CloudOps, kind \in PathKinds, files \in 0..MaxFiles, compress \in BOOLEAN :
       GdCall(op, kind, files, compress)
  \/ \E direction \in SyncDirections, kind \in PathKinds, files \in 0..MaxFiles,
        compress \in BOOLEAN : GdSyncModels(direction, kind, files, compress)
  \/ GdSyncNext
  \/ GdWriteScript
  \/ \E o \in RunOutcomes : GdScriptDone(o)
  \/ GdCatch
  \/ GdBackoffOver
  \/ GdAuthenticate
  \/ \E o \in AuthOutcomes : GdAuthDone(o)

SpecCloud == Init /\ [][CloudNext]_vars

\* ============================== GoogleDriveManager, script executions side by side
\* Two callers use one GoogleDriveManager without awaiting each other: each starts
\* script executions, an attempt of a retried operation or an authentication.
\* ex.runs[i] is the execution of caller i, ex.files the script files in the
\* temporary directory, ex.overwritten whether a script file was written while a
\* running execution was using that path.
ScriptKinds == { "attempt", "authenticate" }
\* Math.random().toString(36).substr(2, 9)
RandomSuffixes == { "r1", "r2" }

\* _executeScriptAttempt: gdrive_${Date.now()}_${random}.py;
\* _authenticatePython: gdrive_auth.py
ScriptPath(kind, t, r) ==
  IF kind = "authenticate" THEN << "gdrive_auth.py" >> ELSE << "gdrive", t, r >>

\* fs.writeFileSync(scriptPath, script), then the subprocess is started.
ScStart(i, kind) ==
  /\ ex.runs[i].pc = "idle"
  /\ \E t \in now..MaxTime, r \in RandomSuffixes :
       LET path == ScriptPath(kind, t, r) IN
       /\ now' = t
       /\ ex' = [ex EXCEPT !.runs[i] = [pc |-> "running", kind |-> kind, path |-> path],
                           !.files = @ \cup { path },
                           !.overwritten =
                             @ \/ \E j \in Slots \ { i } :
                                    ex.runs[j].pc = "running" /\ ex.runs[j].path = path]
  /\ UNCHANGED << config, disk, lastSaved, modelDirs, trainingDirs, tokenFile, call, result,
                  trace, had, ncalls, inst, peer, gd, sv, tasks >>

\* The subprocess ends: exec's callback unlinks the attempt's script;
\* _authenticatePython writes the token when the output parses and leaves its script.
ScDone(i) ==
  /\ ex.runs[i].pc = "running"
  /\ IF ex.runs[i].kind = "attempt"
     THEN /\ ex' = [ex EXCEPT !.runs[i] = NoRun, !.files = @ \ { ex.runs[i].path }]
          /\ UNCHANGED tokenFile
     ELSE /\ ex' = [ex EXCEPT !.runs[i] = NoRun]
          /\ \E o \in AuthOutcomes : tokenFile' = (tokenFile \/ AttemptResolves(o))
  /\ UNCHANGED << config, disk, lastSaved, modelDirs, trainingDirs, now, call, result,
                  trace, had, ncalls, inst, peer, gd, sv, tasks >>

ScriptsNext ==
  \/ \E i \in Slots, kind \in ScriptKinds : ScStart(i, kind)
  \/ \E i \in Slots : ScDone(i)

SpecScripts == Init /\ [][ScriptsNext]_vars

\* ================================================= OllamaClient, step by step
\* sv.pc: "idle", "pending" (the request is sent, the promise not settled),
\* "resolved", "rejected"; sv.elapsed: seconds since the request was sent.
\* sv.parses: whether the response body is well-formed JSON (read by the operations
\* that parse the whole body).
ServingOps == { "health", "pull", "delete", "list", "show", "generate", "streamGenerate" }
BodyParsingOps == { "list", "show", "generate" }

\* How an operation that parses the whole body settles.
BodyOutcome(op, b, bodyParses) ==
  CASE op = "list" -> ListModelsOutcome(b, bodyParses)
    [] op = "show" -> ShowModelOutcome(b, bodyParses)
    [] op = "generate" -> GenerateOutcome(b, bodyParses)

\* The socket timeout the request was given: 5000 for checkHealth, this.timeout else.
SocketTimeout(op) == IF op = "health" THEN HealthTimeout ELSE RequestTimeout

\* Only checkHealth listens to 'timeout' (req.destroy(); resolve(false)).
HandlesTimeout(op) == op = "health"

BoolText(b) == IF b THEN "true" ELSE "false"

SvRequest(op, b, bodyParses) ==
  /\ sv.pc # "pending"
  /\ (op \notin BodyParsingOps \/ b.kind # "response") => bodyParses
  /\ sv' = [SvIdle EXCEPT !.pc = "pending", !.op = op, !.beh = b, !.parses = bodyParses]
  /\ UNCHANGED << regVars, gd >>

SvTick ==
  /\ sv.pc = "pending"
  /\ sv.elapsed < SocketTimeout(sv.op)
  /\ sv' = [sv EXCEPT !.elapsed = @ + 1]
  /\ UNCHANGED << regVars, gd >>

\* The response callback (checkHealth, deleteModel) or its 'end' event (pullModel).
SvResponse ==
  /\ sv.pc = "pending"
  /\ sv.beh.kind = "response"
  /\ HandlesTimeout(sv.op) => sv.elapsed < SocketTimeout(sv.op)
  /\ sv' = CASE sv.op = "health" ->
                  [sv EXCEPT !.pc = "resolved", !.value = BoolText(CheckHealthValue(sv.beh))]
             [] sv.op = "pull" ->
                  [sv EXCEPT !.pc = PullModelOutcome(sv.beh),
                             !.value = IF PullModelOutcome(sv.beh) = "resolved"
                                       THEN "success" ELSE "error"]
             [] sv.op = "delete" ->
                  [sv EXCEPT !.pc = DeleteModelOutcome(sv.beh),
                             !.value = IF DeleteModelOutcome(sv.beh) = "resolved"
                                       THEN "success" ELSE "error"]
             [] sv.op \in BodyParsingOps ->
                  [sv EXCEPT !.pc = BodyOutcome(sv.op, sv.beh, sv.parses),
                             !.value = IF BodyOutcome(sv.op, sv.beh, sv.parses) = "resolved"
                                       THEN "body" ELSE "error"]
             [] sv.op = "streamGenerate" ->
                  [sv EXCEPT !.pc = StreamGenerateOutcome(sv.beh), !.value = "chunk"]
  /\ UNCHANGED << regVars, gd >>

\* The request's 'error' event.
SvError ==
  /\ sv.pc = "pending"
  /\ sv.beh.kind = "error"
  /\ HandlesTimeout(sv.op) => sv.elapsed < SocketTimeout(sv.op)
  /\ sv' = CASE sv.op = "health" ->
                  [sv EXCEPT !.pc = "resolved", !.value = BoolText(CheckHealthValue(sv.beh))]
             [] sv.op = "pull" ->
                  [sv EXCEPT !.pc = PullModelOutcome(sv.beh), !.value = "error"]
             [] sv.op = "delete" ->
                  [sv EXCEPT !.pc = DeleteModelOutcome(sv.beh), !.value = "error"]
             [] sv.op \in BodyParsingOps ->
                  [sv EXCEPT !.pc = BodyOutcome(sv.op, sv.beh, sv.parses), !.value = "error"]
             [] sv.op = "streamGenerate" ->
                  [sv EXCEPT !.pc = StreamGenerateOutcome(sv.beh), !.value = "error"]
  /\ UNCHANGED << regVars, gd >>

\* The request's 'timeout' event, where a handler listens to it.
SvTimeout ==
  /\ sv.pc = "pending"
  /\ HandlesTimeout(sv.op)
  /\ sv.elapsed = SocketTimeout(sv.op)
  /\ sv' = [sv EXCEPT !.pc = "resolved", !.value = BoolText(FALSE)]
  /\ UNCHANGED << regVars, gd >>

ServingNext ==
  \/ \E op \in ServingOps, b \in EndpointBehaviours, p \in BOOLEAN : SvRequest(op, b, p)
  \/ SvTick
  \/ SvResponse
  \/ SvError
  \/ SvTimeout

SpecServing == Init /\ [][ServingNext]_vars

\* ===================================== OllamaClient, the streamed operations
\* sv.conn: "open" while the response streams, "ended" after its 'end' event,
\* "failed" after the request's 'error' event; sv.text is the body the endpoint
\* sends, sv.chunks what has not arrived yet, sv.buffer the handler's buffer and
\* sv.records what it has delivered (onProgress / onChunk), in order.
StreamOps == { "pull", "streamGenerate" }
StreamBehaviours == { b \in EndpointBehaviours : b.kind # "silent" }

StRequest(op, b, chunks) ==
  /\ sv = SvIdle
  /\ b.kind # "response" => chunks = <<>>
  /\ sv' = [SvIdle EXCEPT !.pc = "pending", !.op = op, !.beh = b,
                          !.conn = IF b.kind = "response" THEN "open" ELSE "none",
                          !.text = Flatten(chunks), !.chunks = chunks]
  /\ UNCHANGED << regVars, gd >>

\* res.on('data'); streamGenerate resolves with the first record that carries done
\* (a later resolve of a settled promise has no effect).
StData ==
  /\ sv.conn = "open" /\ sv.chunks # <<>>
  /\ LET d == OnData(sv.buffer, Head(sv.chunks))
         done == sv.op = "streamGenerate" /\ sv.pc = "pending" /\ "d" \in Range(d.records)
     IN sv' = [sv EXCEPT !.chunks = Tail(@), !.buffer = d.buffer,
                         !.records = @ \o d.records,
                         !.pc = IF done THEN "resolved" ELSE @,
                         !.value = IF done THEN "d" ELSE @]
  /\ UNCHANGED << regVars, gd >>

\* res.on('end'): pullModel tests the status, streamGenerate calls resolve().
StEnd ==
  /\ sv.conn = "open" /\ sv.chunks = <<>>
  /\ sv' = IF sv.pc # "pending" THEN [sv EXCEPT !.conn = "ended"]
           ELSE IF sv.op = "pull"
           THEN [sv EXCEPT !.conn = "ended", !.pc = PullModelOutcome(sv.beh),
                           !.value = IF PullModelOutcome(sv.beh) = "resolved"
                                     THEN "success" ELSE "error"]
           ELSE [sv EXCEPT !.conn = "ended", !.pc = "resolved", !.value = "undefined"]
  /\ UNCHANGED << regVars, gd >>

\* The request's 'error' event: reject.
StError ==
  /\ sv.pc = "pending" /\ sv.beh.kind = "error"
  /\ sv' = [sv EXCEPT !.conn = "failed", !.pc = "rejected", !.value = "error"]
  /\ UNCHANGED << regVars, gd >>

StreamNext ==
  \/ \E op \in StreamOps, b \in StreamBehaviours, text \in StreamTexts :
       \E chunks \in Chunkings(text) : StRequest(op, b, chunks)
  \/ StData
  \/ StEnd
  \/ StError

SpecStream == Init /\ [][StreamNext]_vars

\* ==================================================================== claims
Requested(tr, what) == what \in Range(tr)
HealthRejectedPull == << "ev:pull-start", "req:health", "res:unhealthy", "ev:pull-error" >>

\* C1: with overwriteModels not set and a healthy endpoint, a pullModel(m) that
\* directly follows a resolved pullModel(m) returns 'skipped', sends no pull request
\* and leaves the manifest as it was.
C1_SecondPullSkipped ==
  [][ ( /\ call.op = "pull" /\ result = "resolved"
        /\ ~OverwriteModels(config)
        /\ call'.op = "pull" /\ call'.name = call.name
        /\ trace' # HealthRejectedPull )
      => ( /\ result' = "skipped"
           /\ ~Requested(trace', "req:pull")
           /\ config' = config ) ]_vars

\* C2: after a resolved syncToGoogleDrive every manifest entry has synced = true and
\* all entries carry one and the same syncedAt.
C2_SharedSyncedAt ==
  (call.op = "sync" /\ result = "resolved") =>
    /\ \A i \in 1..Len(config.models) : config.models[i].e["synced"] = { TRUE }
    /\ \A i, j \in 1..Len(config.models) :
         config.models[i].e["syncedAt"] = config.models[j].e["syncedAt"]

\* C3: a resolved trainModel(base, data, out) whose out was not in the manifest adds
\* exactly one entry, out, with source = trained, baseModel = base, synced = false,
\* and leaves every other entry (its synced and syncedAt included) as it was.
C3_TrainAddsOneEntry ==
  [][ (call'.op = "train" /\ result' = "resolved" /\ ~HasModel(config.models, call'.name))
      => ( /\ Len(config'.models) = Len(config.models) + 1
           /\ \A i \in 1..Len(config.models) : config'.models[i] = config.models[i]
           /\ Last(config'.models).id = call'.name
           /\ Last(config'.models).e["source"] = { "trained" }
           /\ Last(config'.models).e["baseModel"] = { call'.base }
           /\ Last(config'.models).e["synced"] = { FALSE } ) ]_vars

\* C3 witness: the third call trained a new model beside a pulled entry that an
\* earlier sync had marked.
C3_Witness ==
  /\ call.op = "train" /\ result = "resolved" /\ ~had.entry /\ ncalls = 3
  /\ Len(config.models) = 2
  /\ config.models[1].e["source"] = { "ollama" }
  /\ config.models[1].e["synced"] = { TRUE }
  /\ config.models[1].e["syncedAt"] # {}
  /\ config.models[2].e["synced"] = { FALSE }

C8_DeleteFlags ==
  [][ call'.op = "delete"
      => ( /\ Requested(trace', "req:delete") <=> call'.deleteRemote
           /\ ~call'.deleteLocal => (config' = config /\ modelDirs' = modelDirs)
           /\ (call'.deleteLocal /\ HasModel(config.models, call'.name)) =>
                /\ config'.models = DeleteKey(config.models, call'.name)
                /\ ~HasModel(config'.models, call'.name)
                /\ modelDirs' = modelDirs \ { DirName(call'.name) }
           /\ (call'.deleteLocal /\ ~call'.deleteRemote) =>
                /\ result' = "resolved"
                /\ Requested(trace', "save")
                /\ disk' = SaveConfig(config') ) ]_vars

\* C8 witness: deleteModel(name, true, false) resolved for a model that had an entry
\* and a directory, and another model is still there.
C8_Witness ==
  /\ call.op = "delete" /\ call.deleteLocal /\ ~call.deleteRemote /\ result = "resolved"
  /\ had.entry /\ had.dir
  /\ ~HasModel(config.models, call.name) /\ DirName(call.name) \notin modelDirs
  /\ Len(config.models) = 1

\* C9: between calls the manifest file holds the in-memory manifest.
C9_DiskEqualsMemory == LoadConfig(disk) = config

Success(status) == status >= 200 /\ status < 300

\* C10: OllamaClient.pullModel resolves when the response ends with a 2xx status and
\* rejects for every other status.
C10_PullResolvesOn2xx ==
  (sv.op = "pull" /\ sv.pc \in { "resolved", "rejected" } /\ sv.beh.kind = "response")
    => (sv.pc = "resolved" <=> Success(sv.beh.status))

\* C4: when the first run of a retried cloud operation fails and the second
\* succeeds, the operation resolves with the second run's result and exactly one
\* retry event is emitted, after the first failure and before the second run starts.
C4_OneRetryThenSuccess ==
  (gd.pc = "resolved" /\ gd.attempt = 1) =>
    /\ gd.log = << "start", "fail", "retry", "start", "ok" >>
    /\ gd.value = 2

C4_Witness == gd.pc = "resolved" /\ gd.attempt = 1 /\ gd.op = "download" /\ gd.runs = 2

\* C5: uploadDirectory of a path that is missing or not a directory rejects with the
\* error of its path test ("Directory not found" for a missing path, "Not a
\* directory" for a file); no script is written or run and no retry event is emitted.
C5_UploadMissingDirectory ==
  (gd.op = "upload" /\ gd.path # "dir") =>
    /\ gd.pc = "rejected"
    /\ gd.out \in { "Directory not found", "Not a directory" }
    /\ gd.written = 0 /\ gd.runs = 0 /\ gd.scripts = 0
    /\ gd.log = <<>>

C5_Witness == gd.op = "upload" /\ gd.path = "missing" /\ gd.pc = "rejected"

\* C7: checkHealth never rejects and never stays pending past its timeout; it
\* resolves to false for an endpoint that stays silent (when the timeout elapses) or
\* errors, and to true only for a success response.
C7_CheckHealthSettles ==
  sv.op = "health" =>
    /\ sv.pc # "rejected"
    /\ sv.elapsed <= HealthTimeout
    /\ sv.pc = "pending" => (sv.elapsed < HealthTimeout \/ ENABLED SvTimeout)
    /\ (sv.pc = "resolved" /\ sv.beh.kind = "silent") =>
         (sv.value = "false" /\ sv.elapsed = HealthTimeout)
    /\ (sv.pc = "resolved" /\ sv.beh.kind = "error") => sv.value = "false"
    /\ (sv.pc = "resolved" /\ sv.value = "true") =>
         (sv.beh.kind = "response" /\ Success(sv.beh.status))

C7_Witness ==
  sv.op = "health" /\ sv.pc = "resolved" /\ sv.beh.kind = "silent" /\ sv.value = "false"

\* C11: every OllamaClient operation rejects when the endpoint answers with a status
\* outside 200..299, whether or not the body is well-formed JSON.
C11_NonSuccessStatusRejects ==
  ( /\ sv.op \in { "list", "show", "generate", "pull", "delete" }
    /\ sv.pc \in { "resolved", "rejected" }
    /\ sv.beh.kind = "response" /\ ~Success(sv.beh.status) )
  => sv.pc = "rejected"

\* C12: when a streamed response has ended, every record of its body has been
\* delivered, in order and once: also a record that arrived in pieces and the last
\* record of a body that does not end with a newline.
C12_NoRecordDropped ==
  (sv.op \in StreamOps /\ sv.conn = "ended") => sv.records = RecordsOf(sv.text)

\* C13: streamGenerate resolves with the done record once one was delivered, and
\* does not resolve for a stream that delivered none.
C13_ResolvesOnDoneOnly ==
  sv.op = "streamGenerate" =>
    /\ ("d" \in Range(sv.records)) => (sv.pc = "resolved" /\ sv.value = "d")
    /\ sv.pc = "resolved" => "d" \in Range(sv.records)

\* C14: pullModel asks for the endpoint's health before any other request; when the
\* answer is negative it rejects (pull-error is its last event), sends no pull or
\* show request and leaves the manifest in memory and on disk as it was.
C14_HealthCheckedFirst ==
  [][ (ncalls' = ncalls + 1 /\ call'.op = "pull")
      => ( /\ SubSeq(trace', 1, 2) = << "ev:pull-start", "req:health" >>
           /\ Requested(trace', "res:unhealthy")
                => ( /\ result' = "rejected"
                     /\ Last(trace') = "ev:pull-error"
                     /\ ~Requested(trace', "req:pull") /\ ~Requested(trace', "req:show")
                     /\ config' = config /\ disk' = disk /\ lastSaved' = lastSaved ) ) ]_vars

\* C14 witness: a pull refused on the health answer, with a model already tracked.
C14_Witness ==
  /\ call.op = "pull" /\ result = "rejected" /\ Requested(trace, "res:unhealthy")
  /\ call.name \in Ids /\ Len(config.models) >= 1 /\ LoadConfig(disk) = config

\* The names the documented validation accepts: non-empty strings.
ValidName(name) == IsString(name) /\ name # EmptyName
IsRequest(label) == label \in { "req:health", "req:pull", "req:show", "req:delete" }

\* C15: pullModel of an empty or non-string name rejects before any request is sent
\* to the endpoint and without a change of the manifest.
C15_InvalidNameRejected ==
  [][ (ncalls' = ncalls + 1 /\ call'.op = "pull" /\ ~ValidName(call'.name))
      => ( /\ result' = "rejected"
           /\ \A i \in 1..Len(trace') : ~IsRequest(trace'[i])
           /\ config' = config /\ disk' = disk ) ]_vars

IsCloudCall(label) ==
  label \in { "gd:syncModels", "gd:uploadDirectory", "gd:downloadModels", "gd:authenticate" }
            \cup Range(FolderCalls)

\* C16: syncToGoogleDrive without the token file rejects with the authentication
\* error, also when no folder id is there either; with the token file but neither a
\* folder id argument nor a configured one it rejects with the configuration error.
\* In both cases no cloud call is made and the manifest stays as it was.
C16_SyncPreconditions ==
  [][ (ncalls' = ncalls + 1 /\ call'.op = "sync"
       /\ (~tokenFile \/ ResolveFolderId(call'.folder, config) = {}))
      => ( /\ result' = "rejected"
           /\ trace' = << "ev:sync-start",
                          IF ~tokenFile THEN "err:not-authenticated" ELSE "err:no-folder",
                          "ev:error" >>
           /\ \A i \in 1..Len(trace') : ~IsCloudCall(trace'[i])
           /\ config' = config /\ disk' = disk /\ lastSaved' = lastSaved ) ]_vars

\* C16 witness: a sync with neither token nor folder id, on a manifest with a model.
C16_Witness ==
  /\ call.op = "sync" /\ result = "rejected" /\ call.folder = "none"
  /\ ~tokenFile /\ config.gdrive["backupFolderId"] = {}
  /\ Requested(trace, "err:not-authenticated")
  /\ Len(config.models) >= 1

\* C17: an entry's synced flag goes from false to true only in a syncToGoogleDrive
\* whose upload resolved; a sync whose upload rejected leaves every entry, and the
\* manifest file, as they were.
C17_SyncedOnlyAfterUpload ==
  [][ /\ \A i \in 1..Len(config.models), j \in 1..Len(config'.models) :
           ( /\ config.models[i].id = config'.models[j].id
             /\ config.models[i].e["synced"] = { FALSE }
             /\ config'.models[j].e["synced"] = { TRUE } )
           => ( /\ ncalls' = ncalls + 1 /\ call'.op = "sync" /\ result' = "resolved"
                /\ Requested(trace', "res:uploaded") )
      /\ (ncalls' = ncalls + 1 /\ call'.op = "sync" /\ Requested(trace', "res:upload-failed"))
           => ( /\ result' = "rejected"
                /\ config' = config /\ disk' = disk /\ lastSaved' = lastSaved
                /\ ~Requested(trace', "save") ) ]_vars

\* C17 witness: a sync whose upload rejected, with an unsynced entry in the manifest.
C17_Witness ==
  /\ call.op = "sync" /\ result = "rejected" /\ Requested(trace, "res:upload-failed")
  /\ \E i \in 1..Len(config.models) : config.models[i].e["synced"] = { FALSE }

\* The attempts an operation has started.
Starts(log) == Cardinality({ i \in 1..Len(log) : log[i] = "start" })

\* C18: no script-running operation makes more than DefaultMaxRetries attempts, and
\* one that rejects after a failed script attempt has made all of them (each failed
\* attempt but the last was retried) and rejects with the last attempt's error.
C18_BoundedRetry ==
  /\ Starts(gd.log) <= DefaultMaxRetries
  /\ (gd.pc = "rejected" /\ gd.log # <<>>)
       => (Starts(gd.log) = DefaultMaxRetries /\ gd.out = Last(gd.errs))

\* C19: when a script-running operation has settled, none of the script files it
\* wrote is left.
C19_NoScriptLeft == gd.pc \in { "resolved", "rejected" } => gd.scripts = 0

EntryOf(ms, id) == ms[CHOOSE i \in 1..Len(ms) : ms[i].id = id].e

C21_TrainingIdsDistinct ==
  [][ (ncalls' = ncalls + 1 /\ call'.op = "train" /\ result' = "resolved")
      => TheOne(EntryOf(config'.models, call'.name)["trainingId"]) \notin trainingDirs ]_vars

\* The failure events of the manager ('error', 'pull-error') and of the cloud client.
IsFailureEvent(label) == label \in { "ev:error", "ev:pull-error", "gdev:error" }

\* C22: an operation that rejects has emitted exactly one failure event, the manager's
\* and the clients' taken together, and that event is the last thing before the
\* rejection.
C22_FailureReportedOnce ==
  [][ (ncalls' = ncalls + 1 /\ result' = "rejected")
      => ( /\ Cardinality({ i \in 1..Len(trace') : IsFailureEvent(trace'[i]) }) = 1
           /\ IsFailureEvent(Last(trace')) ) ]_vars

C23_RequestTimesOut ==
  ( /\ sv.op \in { "list", "pull", "show", "generate", "streamGenerate", "delete" }
    /\ sv.beh.kind = "silent"
    /\ sv.elapsed >= RequestTimeout )
  => sv.pc = "rejected"

\* C24: the file is last-write-wins as a whole: after a resolved pull or train of
\* an instance the file holds, besides the written entry, exactly the entries that
\* instance held in memory, whatever the other instance had written; so the other
\* instance's entry can be lost.
C24_LastWriteWins ==
  [][ (ncalls' = ncalls + 1 /\ result' = "resolved" /\ call'.op \in { "pull", "train" })
      => ( /\ HasModel(LoadConfig(disk').models, call'.name)
           /\ \A id \in ManifestIds \ { call'.name } :
                HasModel(LoadConfig(disk').models, id) <=> HasModel(config.models, id) ) ]_vars

\* C24 witness: both instances' pulls resolved (each holds its own entry in memory)
\* and the file lacks the entry the first one wrote.
C24_Witness ==
  /\ inst = 2 /\ call.op = "pull" /\ result = "resolved" /\ ncalls = 2
  /\ \E a \in Ids, b \in Ids :
       /\ a # b /\ call.name = b
       /\ HasModel(peer.models, a) /\ ~HasModel(config.models, a)
       /\ HasModel(config.models, b)
       /\ HasModel(LoadConfig(disk).models, b) /\ ~HasModel(LoadConfig(disk).models, a)

\* The upload of a sync covers the model directory: the artifacts of the entry
\* `id` are in it when they are a directory of the model directory, and not when
\* they are a training directory.
ArtifactsUploaded(ms, id, dirs) ==
  EntryOf(ms, id)["trainingId"] = {} /\ DirName(id) \in dirs

\* C25: after a resolved syncToGoogleDrive every entry the sync marked synced is
\* one whose artifacts were in the confirmed upload, a trained entry with its
\* artifacts in the training directory included.
C25_SyncedWasUploaded ==
  [][ (ncalls' = ncalls + 1 /\ call'.op = "sync" /\ result' = "resolved")
      => \A id \in ManifestIds :
           ( /\ HasModel(config'.models, id)
             /\ EntryOf(config'.models, id)["synced"] = { TRUE }
             /\ EntryOf(config'.models, id)["source"] # { "restored" } )
           => ArtifactsUploaded(config'.models, id, modelDirs) ]_vars

\* C27: every trainingId recorded in a manifest entry has its directory under
\* the training path, in every state reached from an empty manifest by pull, train,
\* sync, restore, export and delete.
C27_TrainingDirExists ==
  \A i \in 1..Len(config.models) : config.models[i].e["trainingId"] \subseteq trainingDirs

\* C27 witness: a trained entry is in the manifest after a later export of its
\* training directory resolved.
C27_Witness ==
  /\ call.op = "export" /\ result = "resolved"
  /\ \E i \in 1..Len(config.models) : config.models[i].e["trainingId"] = { call.trainingId }

\* The timestamps set at a lifecycle transition other than an upload.
LifecycleStamps == { "pulledAt", "trainedAt", "restoredAt" }

\* C28: while an entry stays in the manifest, a lifecycle timestamp that is set
\* keeps its value through every operation, a repeated pull with overwrite and a
\* repeated train with the same output name included; syncedAt changes only in
\* a resolved syncToGoogleDrive.
C28_StampsSetOnce ==
  [][ \A id \in ManifestIds :
        (HasModel(config.models, id) /\ HasModel(config'.models, id))
        => ( /\ \A k \in LifecycleStamps :
                  EntryOf(config.models, id)[k] # {}
                  => EntryOf(config'.models, id)[k] = EntryOf(config.models, id)[k]
             /\ EntryOf(config'.models, id)["syncedAt"] # EntryOf(config.models, id)["syncedAt"]
                  => (call'.op = "sync" /\ result' = "resolved") ) ]_vars

\* C29: syncModels with direction 'both' emits the 'uploading' status first; the
\* download runs only after the upload resolved and the 'downloading' status was
\* emitted; 'sync-complete' is emitted exactly when both phases resolved, with both
\* results; when the upload resolves and the download rejects the operation
\* rejects with 'error' and without 'sync-complete', the upload's result having been
\* emitted with 'upload-progress'.
C29_SyncBothOrder ==
  gd.sync = "both" =>
    /\ Head(gd.events) = "sync-status:uploading"
    /\ gd.op = "upload" => (gd.results = {} /\ ~Requested(gd.events, "sync-status:downloading"))
    /\ gd.op = "download" =>
         /\ "upload" \in gd.results
         /\ SubSeq(gd.events, 1, 3) =
              << "sync-status:uploading", "upload-progress", "sync-status:downloading" >>
    /\ Requested(gd.events, "sync-complete") <=> gd.syncpc = "resolved"
    /\ gd.syncpc = "resolved" =>
         /\ gd.results = { "upload", "download" }
         /\ gd.events = << "sync-status:uploading", "upload-progress",
                           "sync-status:downloading", "download-progress", "sync-complete" >>
    /\ (gd.syncpc = "rejected" /\ gd.op = "download") =>
         /\ gd.results = { "upload" }
         /\ gd.events = << "sync-status:uploading", "upload-progress",
                           "sync-status:downloading", "error" >>

\* C29 witness: a 'both' sync rejected in its download phase after the upload
\* resolved.
C29_Witness ==
  /\ gd.sync = "both" /\ gd.syncpc = "rejected" /\ gd.op = "download"
  /\ Requested(gd.events, "upload-progress") /\ gd.runs = DefaultMaxRetries

\* The root folder, then the three subfolders created under it.
RootThenSubfolders ==
  << "gd:createFolder:copilot-models", "gd:createFolder:ollama-models",
     "gd:createFolder:trained-models", "gd:createFolder:backups" >>

\* C30: setupGoogleDrive authenticates before anything else; without a folder id
\* it creates the root folder and then exactly three subfolders, and only after all
\* of them the folder id is written to the manifest's gdrive object and saved; with
\* a folder id no folder is created; a setup that fails at any step leaves the
\* gdrive object and the file as they were.
C30_SetupOrder ==
  [][ (ncalls' = ncalls + 1 /\ call'.op = "setup")
      => ( /\ SubSeq(trace', 1, 2) = << "ev:gdrive-setup-start", "gd:authenticate" >>
           /\ call'.folder # "none"
                => \A i \in 1..Len(trace') : trace'[i] \notin Range(RootThenSubfolders)
           /\ result' = "resolved"
                => ( /\ trace' = << "ev:gdrive-setup-start", "gd:authenticate" >>
                                  \o (IF call'.folder = "none" THEN RootThenSubfolders ELSE <<>>)
                                  \o << "save", "ev:gdrive-setup-complete" >>
                     /\ config'.gdrive.backupFolderId =
                          { IF call'.folder = "none" THEN CreatedFolderId ELSE call'.folder }
                     /\ config'.gdrive.authenticated = { TRUE }
                     /\ disk' = SaveConfig(config') )
           /\ result' # "resolved"
                => ( /\ result' = "rejected"
                     /\ config' = config /\ disk' = disk
                     /\ ~Requested(trace', "save")
                     /\ \E n \in 0..Len(RootThenSubfolders) :
                          trace' = << "ev:gdrive-setup-start", "gd:authenticate" >>
                                   \o SubSeq(RootThenSubfolders, 1, n)
                                   \o (IF n = 0 THEN << "gdev:error" >> ELSE <<>>)
                                   \o << "ev:error" >> ) ) ]_vars

\* C30 witness: a setup without a folder id resolved after its four createFolder
\* calls, and the created root folder's id is in the manifest.
C30_Witness ==
  /\ call.op = "setup" /\ call.folder = "none" /\ result = "resolved"
  /\ Requested(trace, "gd:createFolder:backups")
  /\ config.gdrive.backupFolderId = { CreatedFolderId }

\* C31: script output that fails to parse is not retried: a parse failure is the
\* operation's last attempt, and the operation rejects without a wait or a retry
\* event.
C31_ParseFailureNotRetried ==
  \A i \in 1..Len(gd.errs) :
    gd.errs[i] = "bad-output" => (i = Len(gd.errs) /\ gd.pc \in { "failed", "rejected" }
                                  /\ Starts(gd.log) = i /\ ~Requested(gd.log, "retry"))

\* C32: a generated script that ran successfully printed exactly one line of
\* JSON, so its output parses: an uploadDirectory without compression or a
\* downloadModels whose run ended with its transfers done resolves, for a tree of
\* any number of files.
C32_SuccessfulRunResolves ==
  ( /\ gd.op \in { "upload", "download" } /\ ~gd.compress
    /\ gd.exits # <<>> /\ Last(gd.exits) = "ok" /\ gd.pc # "exec" )
  => ( /\ gd.pc = "resolved"
       /\ Len(SplitLines(ScriptStdout(gd.op, gd.files, gd.compress))) = 2 )

\* C33: a manifest constructed from a file of well-formed JSON, one that lacks
\* sections included, has the models, settings and gdrive sections, and no
\* operation fails because a section is missing.
C33_SectionsAfterLoad ==
  /\ Sections \subseteq DOMAIN config
  /\ ~Requested(trace, "err:missing-section")

\* C34: however the bytes of a response are cut into chunks, pullModel delivers
\* to onProgress what it delivers when the body arrives as one chunk: the records
\* of the newline-terminated lines, each once and in order.
C34_ChunkingIndependent ==
  (sv.op = "pull" /\ sv.conn = "open" /\ sv.chunks = <<>>)
    => sv.records = OnData(<<>>, sv.text).records

\* The completion events of the mutating ModelManager operations.
CompletionEvents ==
  { "ev:pull-complete", "ev:training-complete", "ev:sync-complete", "ev:model-deleted",
    "ev:gdrive-setup-complete" }

C36_ScriptPathsDistinct ==
  \A i \in Slots, j \in Slots :
    ( /\ i # j /\ ex.runs[i].pc = "running" /\ ex.runs[j].pc = "running"
      /\ ex.runs[i].kind = "authenticate" )
    => ex.runs[i].path # ex.runs[j].path

\* C37: the directory name of a model id scans back to the id, so a resolved
\* restoreFromGoogleDrive inserts no entry under another id for the directory of a
\* model that was tracked already.
C37_NamesRoundTrip ==
  [][ (ncalls' = ncalls + 1 /\ call'.op = "restore" /\ result' = "resolved")
      => \A m \in ManifestIds :
           (HasModel(config.models, m) /\ DirName(m) \in modelDirs')
           => ( /\ ScanName(DirName(m)) = m
                /\ \A n \in ManifestIds :
                     (HasModel(config'.models, n) /\ ~HasModel(config.models, n))
                     => DirName(n) # DirName(m) ) ]_vars

\* The terminal events of pullModel.
PullTerminals == { "ev:pull-skipped", "ev:pull-complete", "ev:pull-error" }

\* C38: the events of a pullModel call are pull-start, then pull-progress events,
\* then exactly one terminal event, pull-skipped, pull-complete or pull-error; the
\* call resolves after the first two and rejects after pull-error.
C38_PullEventOrder ==
  [][ (ncalls' = ncalls + 1 /\ call'.op = "pull")
      => ( /\ trace'[1] = "ev:pull-start"
           /\ \A i \in 2..Len(trace') : trace'[i] # "ev:pull-start"
           /\ Cardinality({ i \in 1..Len(trace') : trace'[i] \in PullTerminals }) = 1
           /\ Last(trace') \in PullTerminals
           /\ Last(trace') = "ev:pull-skipped" => result' = "skipped"
           /\ Last(trace') = "ev:pull-complete" => result' = "resolved"
           /\ Last(trace') = "ev:pull-error" => result' = "rejected" ) ]_vars

\* ------------------------------------------- two operations of one instance
\* Mutant: the operation works on the manifest it saw when it was called.
ConfigAtCall(current, atCall) == atCall

\* this.config in `this.config.models[name] = ...`: the property is read when the
\* statement runs, after the last await, so it is the instance's one manifest
\* object with whatever the other operations have put into it.
ConfigAtStatement(current, atCall) == current

TaskVarsUnchanged == UNCHANGED << call, result, trace, had, ncalls, gd, sv, inst, peer, ex >>

\* pullModel(name) is called: it emits pull-start and suspends at
\* `await this.ollama.checkHealth()`.
TkCallPull(i, name) ==
  /\ tasks[i].pc = "idle"
  /\ tasks' = [tasks EXCEPT ![i] = [NoTask EXCEPT !.pc = "health", !.op = "pull", !.name = name,
                                                  !.snapshot = { config }]]
  /\ UNCHANGED << config, disk, lastSaved, modelDirs, trainingDirs, tokenFile, now >>
  /\ TaskVarsUnchanged

\* trainModel(base, data, out) is called: it emits training-start, throws when the
\* data file is missing, and else suspends at `await this.ollama.checkHealth()`.
TkCallTrain(i, base, data, out) ==
  /\ tasks[i].pc = "idle"
  /\ tasks' = [tasks EXCEPT ![i] =
                 [NoTask EXCEPT !.pc = IF data \in ExistingDataPaths THEN "health" ELSE "rejected",
                                !.op = "train", !.name = out, !.base = base, !.data = data,
                                !.snapshot = { config }]]
  /\ UNCHANGED << config, disk, lastSaved, modelDirs, trainingDirs, tokenFile, now >>
  /\ TaskVarsUnchanged

\* The awaited promise of a suspended pullModel settles and the function runs to
\* its next await, or to its end.
TkResumePull(i) ==
  LET k == tasks[i]
      goto(pc) == /\ tasks' = [tasks EXCEPT ![i].pc = pc]
                  /\ UNCHANGED << config, disk, lastSaved, modelDirs, trainingDirs, tokenFile,
                                  now >>
  IN
  /\ k.op = "pull"
  /\ CASE k.pc = "health" ->
            \E healthy \in HealthValues :
              IF ServerAccessible(healthy) /\ IsString(k.name) THEN goto("exists")
              ELSE goto("rejected")
       [] k.pc = "exists" ->
            IF ModelExists(modelDirs, k.name) /\ ~HasSection(config, "settings")
            THEN goto("rejected")
            ELSE IF ModelExists(modelDirs, k.name) /\ ~OverwriteModels(config)
            THEN goto("skipped")
            ELSE goto("pull")
       [] k.pc = "pull" ->
            \E pulling \in PullModelOutcomes :
              goto(CASE pulling = "pending" -> "stuck"
                     [] pulling = "rejected" -> "rejected"
                     [] OTHER -> "show")
       [] k.pc = "show" ->
            \E showing \in ShowModelOutcomes :
              IF showing = "pending" THEN goto("stuck")
              ELSE IF showing = "rejected" \/ ~HasSection(config, "models")
              THEN goto("rejected")
              ELSE
                \E info \in InfoBlobs, t \in now..MaxTime :
                  /\ Saved([ConfigAtStatement(config, TheOne(k.snapshot)) EXCEPT
                              !.models = PutModel(@, k.name, PulledEntry(t, info))])
                  /\ now' = t
                  /\ tasks' = [tasks EXCEPT ![i].pc = "resolved"]
                  /\ UNCHANGED << modelDirs, trainingDirs, tokenFile >>
       [] OTHER -> FALSE
  /\ TaskVarsUnchanged

\* checkHealth of a suspended trainModel settles: the rest of the function has no
\* await and runs in one piece.
TkResumeTrain(i) ==
  LET k == tasks[i] IN
  /\ k.op = "train" /\ k.pc = "health"
  /\ \E healthy \in HealthValues :
       IF ~healthy
       THEN /\ tasks' = [tasks EXCEPT ![i].pc = "rejected"]
            /\ UNCHANGED << config, disk, lastSaved, modelDirs, trainingDirs, tokenFile, now >>
       ELSE
         \E ts \in ClockReadings(2, now) :
           LET trainingId == << k.name, ts[1] >> IN
           /\ trainingDirs' = MkdirTraining(trainingDirs, trainingId)
           /\ IF ~HasSection(config, "models")
              THEN /\ tasks' = [tasks EXCEPT ![i].pc = "rejected"]
                   /\ now' = ts[1]
                   /\ UNCHANGED << config, disk, lastSaved, modelDirs, tokenFile >>
              ELSE /\ Saved([ConfigAtStatement(config, TheOne(k.snapshot)) EXCEPT
                               !.models = PutModel(@, k.name,
                                                   TrainedEntry(k.base, k.data, trainingId,
                                                                ts[2]))])
                   /\ now' = ts[2]
                   /\ tasks' = [tasks EXCEPT ![i].pc = "resolved"]
                   /\ UNCHANGED << modelDirs, tokenFile >>
  /\ TaskVarsUnchanged

\* One ModelManager instance with up to two operations in flight: the event loop
\* runs one of them from an await to the next.
TasksNext ==
  \/ \E i \in Slots, name \in Ids : TkCallPull(i, name)
  \/ \E i \in Slots, base \in BaseIds, data \in DataPaths, out \in Ids :
       TkCallTrain(i, base, data, out)
  \/ \E i \in Slots : TkResumePull(i)
  \/ \E i \in Slots : TkResumeTrain(i)

SpecTasks == Init /\ [][TasksNext]_vars

\* The operation in slot i has succeeded and written its entry.
Succeeded(i) == tasks[i].pc = "resolved"

\* C39: when two operations of one instance on different ids have both succeeded,
\* however their steps interleaved, both entries are in the in-memory manifest and
\* in the manifest file.
C39_NoLostUpdate ==
  \A i \in Slots, j \in Slots :
    (i # j /\ Succeeded(i) /\ Succeeded(j) /\ tasks[i].name # tasks[j].name)
      => /\ HasModel(config.models, tasks[i].name)
         /\ HasModel(config.models, tasks[j].name)
         /\ disk # {}
         /\ HasModel(LoadConfig(disk).models, tasks[i].name)
         /\ HasModel(LoadConfig(disk).models, tasks[j].name)

\* C39 witness: pullModel(a) and trainModel(_, _, b:1) have both succeeded, and each
\* was called before the other wrote its entry, so they were in flight together.
C39_Witness ==
  /\ tasks[1].op = "pull" /\ tasks[2].op = "train"
  /\ Succeeded(1) /\ Succeeded(2)
  /\ tasks[1].name # tasks[2].name
  /\ ~HasModel(TheOne(tasks[1].snapshot).models, tasks[2].name)
  /\ ~HasModel(TheOne(tasks[2].snapshot).models, tasks[1].name)
  /\ HasModel(LoadConfig(disk).models, tasks[1].name)
  /\ HasModel(LoadConfig(disk).models, tasks[2].name)

\* --------------------------------------------------- authentication revoked
\* GoogleDriveManager.revokeAuth(), called on the manager's gdrive: the token file
\* is unlinked when it exists, and 'auth-revoked' is emitted on the cloud client.
\* The manifest is neither read nor written.
RevokeAuth ==
  /\ tokenFile' = FALSE
  /\ Settle([NoCall EXCEPT !.op = "revoke"], "resolved",
            IF tokenFile THEN << "gdev:auth-revoked" >> ELSE <<>>)
  /\ UNCHANGED << config, disk, lastSaved, modelDirs, trainingDirs, now >>

\* The cloud set-up of one caller: set-ups, revocations, uploads and new instances.
AuthNext ==
  \/ \E arg \in FolderInputs : Called /\ SetupGoogleDrive(arg)
  \/ Called /\ RevokeAuth
  \/ \E arg \in FolderInputs : Called /\ SyncToGoogleDrive(arg)
  \/ Called /\ Construct

SpecAuth == Init /\ [][AuthNext]_vars

\* C40: the manifest's flag gdrive.authenticated, in memory and in the file, is true
\* only while the token file exists (isAuthenticated() is true).
C40_FlagAgreesWithToken ==
  /\ config.gdrive.authenticated = { TRUE } => tokenFile
  /\ LoadConfig(disk).gdrive.authenticated = { TRUE } => tokenFile

====
